---- MODULE Spec2Model ----
(***************************************************************************)
(* Segment aggregation core of the road-comfort backend:                   *)
(*   cloud/backend/aggregator.py  SegmentBuffer, AggregationService        *)
(*   cloud/backend/cache.py       CacheManager                             *)
(*   cloud/backend/main.py        the FastAPI handlers                     *)
(*                                                                         *)
(* Floats are modelled as exact extended rationals [n, d] (d = 0 encodes   *)
(* the IEEE specials), so rounding is not modelled.  Time is counted in    *)
(* units of 30 days; datetime.utcnow() reads the variable now.  A sample's *)
(* timestamp, speed and heading are stored and echoed but never read by    *)
(* the operations below, and are left out of the sample record.            *)
(***************************************************************************)
EXTENDS Integers, Sequences, FiniteSets, Bags, TLC

VARIABLES
    buffers,    \* AggregationService.buffers: dict segment_id -> SegmentBuffer
    now,        \* the wall clock read by datetime.utcnow()
    ret,        \* what the last completed operation returned to its caller
    log,        \* history: per key, the samples ingested since its buffer was created
    swept,      \* history: per key, the state of the last buffer a sweep removed
    created,    \* history: per key, number of SegmentBuffer objects created for it
    cache,      \* CacheManager.cache: dict segment_id -> entry
    tasks,      \* bag of the background tasks added and not yet run
    inflight,   \* bag of the requests received whose handler has not started
    running,    \* the handler activations that have started and not returned
    lost,       \* history: a sample was appended to a buffer that is not in the table
    past        \* history: per key, the (aggregate, sample_count) the store held right
                \* after each ingest a handler accepted

gateway == <<cache, tasks, inflight, running, lost, past>>

vars == <<buffers, now, ret, log, swept, created, cache, tasks, inflight, running, lost, past>>

-----------------------------------------------------------------------------
(* Bounds of the model *)

\* ingests into one buffer of the primary key
MaxIngests == 11
\* ingests into one buffer of any other key
MaxSecondary == 1
\* samples in the logs whose (score, confidence) is not the nominal one
MaxVaried == 1
\* the clock stops here
MaxTime == 1

PrimaryKey == "seg_a"

Keys == {PrimaryKey, "seg_b"}

-----------------------------------------------------------------------------
(* Program constants *)

\* deque(maxlen=10)
MaxLen == 10
\* is_finalized: len(self.samples) >= 10
FinalizeAt == 10
\* timedelta(days=30), in units of 30 days
TTL == 1
\* expires_at: Optional[datetime] = None
NoTime == -1

-----------------------------------------------------------------------------
(* Float arithmetic as numpy performs it, on exact extended rationals *)

Abs(x) == IF x < 0 THEN -x ELSE x

Sign(x) == IF x > 0 THEN 1 ELSE IF x < 0 THEN -1 ELSE 0

RECURSIVE GCD(_, _)
GCD(a, b) == IF b = 0 THEN a ELSE GCD(b, a % b)

\* n/d in lowest terms; x/0 is +inf, -inf or nan as in IEEE 754
Float(n, d) ==
    IF d = 0 THEN [n |-> Sign(n), d |-> 0]
    ELSE IF d = 1 THEN [n |-> n, d |-> 1]
    ELSE LET g == GCD(Abs(n), Abs(d))
         IN  [n |-> (Sign(d) * n) \div g, d |-> Abs(d) \div g]

NaN == [n |-> 0, d |-> 0]
Zero == Float(0, 1)
Half == Float(1, 2)
One == Float(1, 1)

IsNaN(a) == a.d = 0 /\ a.n = 0
IsInf(a) == a.d = 0 /\ a.n # 0
IsFinite(a) == a.d > 0

\* the operands of an arithmetic operation are values: each is evaluated once,
\* before the operation looks at it
FAdd(x, y) ==
    LET Sum(a, b) ==
            IF a.d > 0 /\ b.d > 0 THEN Float(a.n * b.d + b.n * a.d, a.d * b.d)
            ELSE IF IsNaN(a) \/ IsNaN(b) THEN NaN
            ELSE IF IsInf(a) /\ IsInf(b) THEN (IF a.n = b.n THEN a ELSE NaN)
            ELSE IF IsInf(a) THEN a
            ELSE b
    IN  CHOOSE r \in {Sum(a, b) : a \in {x}, b \in {y}} : TRUE

FMul(x, y) ==
    LET Product(a, b) ==
            IF a.d > 0 /\ b.d > 0 THEN Float(a.n * b.n, a.d * b.d)
            ELSE IF IsNaN(a) \/ IsNaN(b) THEN NaN
            ELSE Float(Sign(a.n) * Sign(b.n), 0)
    IN  CHOOSE r \in {Product(a, b) : a \in {x}, b \in {y}} : TRUE

FDiv(x, y) ==
    LET Quotient(a, b) ==
            IF a.d > 0 /\ b.d > 0 THEN Float(a.n * b.d, a.d * b.n)
            ELSE IF IsNaN(a) \/ IsNaN(b) THEN NaN
            ELSE IF IsInf(a) /\ IsInf(b) THEN NaN
            ELSE IF IsInf(a) THEN Float(a.n * (IF b.n < 0 THEN -1 ELSE 1), 0)
            ELSE Zero
    IN  CHOOSE r \in {Quotient(a, b) : a \in {x}, b \in {y}} : TRUE

\* a <= b on floats; any comparison with nan is false
FLeq(a, b) ==
    /\ ~IsNaN(a) /\ ~IsNaN(b)
    /\ IF IsInf(a) /\ IsInf(b) THEN a.n <= b.n
       ELSE IF IsInf(a) THEN a.n < 0
       ELSE IF IsInf(b) THEN b.n > 0
       ELSE a.n * b.d <= b.n * a.d

\* arrays are sequences of floats, built element by element
RECURSIVE NpSumFrom(_, _)
NpSumFrom(xs, i) == IF i > Len(xs) THEN Zero ELSE FAdd(xs[i], NpSumFrom(xs, i + 1))

\* np.sum
NpSum(xs) == NpSumFrom(xs, 1)

RECURSIVE NpDivideFrom(_, _, _)
NpDivideFrom(xs, s, i) ==
    IF i > Len(xs) THEN <<>> ELSE <<FDiv(xs[i], s)>> \o NpDivideFrom(xs, s, i + 1)

\* array / scalar
NpDivide(xs, s) == NpDivideFrom(xs, s, 1)

RECURSIVE NpMultiplyFrom(_, _, _)
NpMultiplyFrom(xs, ys, i) ==
    IF i > Len(xs) THEN <<>> ELSE <<FMul(xs[i], ys[i])>> \o NpMultiplyFrom(xs, ys, i + 1)

\* array * array
NpMultiply(xs, ys) == NpMultiplyFrom(xs, ys, 1)

\* np.average(a, weights=wgt): scl = wgt.sum(); ZeroDivisionError if scl == 0.0;
\* else sum(a * wgt) / scl
NpAverage(a, wgt) ==
    LET scl == NpSum(wgt)
    IN  IF scl = Zero THEN [raised |-> TRUE, value |-> NaN]
        ELSE [raised |-> FALSE, value |-> FDiv(NpSum(NpMultiply(a, wgt)), scl)]

\* np.mean
NpMean(xs) == FDiv(NpSum(xs), Float(Len(xs), 1))

-----------------------------------------------------------------------------
(* SegmentBuffer *)

VehicleSample(score, conf, vid) ==
    [comfort_score |-> score, confidence |-> conf, vehicle_id |-> vid]

\* SegmentBuffer(segment_id=k): the dataclass defaults; obj is the object's identity
SegmentBuffer(k, t, id) ==
    [segment_id |-> k, samples |-> <<>>, aggregated_score |-> Half,
     last_updated |-> t, expires_at |-> NoTime, obj |-> id]

\* a bounded buffer that refuses the new item when full, keeping the oldest ones
DequeAppendKeepOldest(q, x) == IF Len(q) >= MaxLen THEN q ELSE Append(q, x)

\* a tumbling window: a full buffer starts over with the new item
DequeAppendStartOver(q, x) == IF Len(q) >= MaxLen THEN <<x>> ELSE Append(q, x)

\* deque.append on a deque with maxlen: a full deque drops its oldest item
DequeAppend(q, x) ==
    LET a == Append(q, x) IN IF Len(a) > MaxLen THEN Tail(a) ELSE a

RECURSIVE ScoresFrom(_, _)
ScoresFrom(q, i) ==
    IF i > Len(q) THEN <<>> ELSE <<q[i].comfort_score>> \o ScoresFrom(q, i + 1)

\* np.array([s.comfort_score for s in self.samples])
Scores(buf) == ScoresFrom(buf.samples, 1)

RECURSIVE ConfidencesFrom(_, _)
ConfidencesFrom(q, i) ==
    IF i > Len(q) THEN <<>> ELSE <<q[i].confidence>> \o ConfidencesFrom(q, i + 1)

\* np.array([s.confidence for s in self.samples])
Confidences(buf) == ConfidencesFrom(buf.samples, 1)

\* weights / np.sum(weights)
NormalizedWeights(buf) ==
    LET weights == Confidences(buf) IN NpDivide(weights, NpSum(weights))

\* np.average(scores, weights=weights) over the buffer's samples
WeightedAverage(buf) == NpAverage(Scores(buf), NormalizedWeights(buf))

\* a recompute that ignores the confidences: the plain mean of the scores
UpdateAggregationUnweighted(buf) ==
    IF buf.samples = <<>>
    THEN [buf |-> [buf EXCEPT !.aggregated_score = Half], raised |-> FALSE]
    ELSE [buf |-> [buf EXCEPT !.aggregated_score = NpMean(Scores(buf)),
                              !.expires_at = buf.last_updated + TTL],
          raised |-> FALSE]

\* a recompute that sets the expiry once, when the window gets its first sample
UpdateAggregationExpiryOnce(buf) ==
    IF buf.samples = <<>>
    THEN [buf |-> [buf EXCEPT !.aggregated_score = Half], raised |-> FALSE]
    ELSE LET avg == WeightedAverage(buf)
         IN  IF avg.raised THEN [buf |-> buf, raised |-> TRUE]
             ELSE [buf |-> [buf EXCEPT !.aggregated_score = avg.value,
                                       !.expires_at = IF @ = NoTime
                                                      THEN buf.last_updated + TTL ELSE @],
                   raised |-> FALSE]

\* _update_aggregation: the buffer it leaves, and whether np.average raised (it
\* raises before anything is assigned)
UpdateAggregation(buf) ==
    IF buf.samples = <<>>
    THEN [buf |-> [buf EXCEPT !.aggregated_score = Half], raised |-> FALSE]
    ELSE LET avg == WeightedAverage(buf)
         IN  IF avg.raised THEN [buf |-> buf, raised |-> TRUE]
             ELSE [buf |-> [buf EXCEPT !.aggregated_score = avg.value,
                                       !.expires_at = buf.last_updated + TTL],
                   raised |-> FALSE]

\* add_sample up to the call of _update_aggregation
AppendSample(buf, sample, t) ==
    [buf EXCEPT !.samples = DequeAppend(@, sample), !.last_updated = t]

\* add_sample: the buffer it leaves, and whether it raised
AddSample(buf, sample, t) == UpdateAggregation(AppendSample(buf, sample, t))

\* a validity test that still holds at the instant of expiry
IsValidInclusive(buf, t) == IF buf.expires_at = NoTime THEN FALSE ELSE t <= buf.expires_at

IsValid(buf, t) == IF buf.expires_at = NoTime THEN FALSE ELSE t < buf.expires_at

\* an off-by-one finalization test
IsFinalizedStrict(buf) == Len(buf.samples) > FinalizeAt

IsFinalized(buf) == Len(buf.samples) >= FinalizeAt

SampleCount(buf) == Len(buf.samples)

AverageConfidence(buf) ==
    IF buf.samples = <<>> THEN Zero ELSE NpMean(Confidences(buf))

-----------------------------------------------------------------------------
(* AggregationService *)

\* a lookup that starts a new window when the window of the key has expired
GetOrCreateReplacingExpired(bufs, k, t, id) ==
    IF k \in DOMAIN bufs /\ IsValid(bufs[k], t) THEN bufs
    ELSE [x \in (DOMAIN bufs) \cup {k} |-> IF x = k THEN SegmentBuffer(k, t, id) ELSE bufs[x]]

\* if segment_id not in self.buffers: self.buffers[segment_id] = SegmentBuffer(...)
GetOrCreate(bufs, k, t, id) ==
    IF k \in DOMAIN bufs THEN bufs ELSE bufs @@ (k :> SegmentBuffer(k, t, id))

\* ingest_prediction(k, score, conf, vehicle_id = vid): the table it leaves, and
\* whether it raised
IngestOutcome(bufs, k, score, conf, vid, t, id) ==
    LET got == GetOrCreate(bufs, k, t, id)
        out == AddSample(got[k], VehicleSample(score, conf, vid), t)
    IN  [table |-> [got EXCEPT ![k] = out.buf], raised |-> out.raised]

\* a result that counts the samples the window held before this ingest
IngestResultCountBefore(buf) ==
    [aggregated_score |-> buf.aggregated_score,
     sample_count |-> SampleCount(buf) - 1,
     is_finalized |-> IsFinalized(buf)]

\* what ingest_prediction returns: (aggregated_score, sample_count, is_finalized)
IngestResult(buf) ==
    [aggregated_score |-> buf.aggregated_score,
     sample_count |-> SampleCount(buf),
     is_finalized |-> IsFinalized(buf)]

\* the dict get_segment_score and get_all_segments build for one buffer
Snapshot(buf, t) ==
    [segment_id |-> buf.segment_id,
     comfort_score |-> buf.aggregated_score,
     sample_count |-> SampleCount(buf),
     confidence |-> AverageConfidence(buf),
     last_updated |-> buf.last_updated,
     expires_at |-> buf.expires_at,
     is_valid |-> IsValid(buf, t),
     is_finalized |-> IsFinalized(buf)]

\* a query that hides expired buffers
GetSegmentScoreValidOnly(bufs, k, t) ==
    IF k \notin DOMAIN bufs \/ ~IsValid(bufs[k], t) THEN <<>> ELSE <<Snapshot(bufs[k], t)>>

\* get_segment_score: <<>> is None, <<d>> the dict d
GetSegmentScore(bufs, k, t) ==
    IF k \notin DOMAIN bufs THEN <<>> ELSE <<Snapshot(bufs[k], t)>>

\* get_all_segments: the dicts it returns (their order, the dict's insertion order,
\* is left out)
GetAllSegments(bufs, include_invalid, include_finalized_only, t) ==
    {Snapshot(bufs[k], t) :
        k \in {x \in DOMAIN bufs :
                  /\ ~(include_finalized_only /\ ~IsFinalized(bufs[x]))
                  /\ ~(~include_invalid /\ ~IsValid(bufs[x], t))}}

RECURSIVE FloatSumOver(_, _)
FloatSumOver(f, S) ==
    IF S = {} THEN Zero
    ELSE LET x == CHOOSE y \in S : TRUE IN FAdd(f[x], FloatSumOver(f, S \ {x}))

\* statistics that count the finalized buffers among all buffers, expired or not
GetStatsFinalizedOfAll(bufs, t) ==
    LET all_segments == DOMAIN bufs
        valid_segments == {k \in all_segments : IsValid(bufs[k], t)}
        finalized == {k \in all_segments : IsFinalized(bufs[k])}
        n == Float(Cardinality(valid_segments), 1)
    IN  [total_segments |-> Cardinality(all_segments),
         valid_segments |-> Cardinality(valid_segments),
         finalized_segments |-> Cardinality(finalized),
         avg_samples_per_segment |->
             IF valid_segments # {}
             THEN FDiv(FloatSumOver([k \in valid_segments |-> Float(SampleCount(bufs[k]), 1)],
                                    valid_segments), n)
             ELSE Zero,
         avg_comfort_score |->
             IF valid_segments # {}
             THEN FDiv(FloatSumOver([k \in valid_segments |-> bufs[k].aggregated_score],
                                    valid_segments), n)
             ELSE Half,
         finalization_rate |->
             IF valid_segments # {}
             THEN Float(Cardinality(finalized), Cardinality(valid_segments))
             ELSE Zero]

\* statistics whose averages run over all buffers, expired or not
GetStatsAveragesOfAll(bufs, t) ==
    LET all_segments == DOMAIN bufs
        valid_segments == {k \in all_segments : IsValid(bufs[k], t)}
        finalized == {k \in valid_segments : IsFinalized(bufs[k])}
        n == Float(Cardinality(all_segments), 1)
    IN  [total_segments |-> Cardinality(all_segments),
         valid_segments |-> Cardinality(valid_segments),
         finalized_segments |-> Cardinality(finalized),
         avg_samples_per_segment |->
             IF all_segments # {}
             THEN FDiv(FloatSumOver([k \in all_segments |-> Float(SampleCount(bufs[k]), 1)],
                                    all_segments), n)
             ELSE Zero,
         avg_comfort_score |->
             IF all_segments # {}
             THEN FDiv(FloatSumOver([k \in all_segments |-> bufs[k].aggregated_score],
                                    all_segments), n)
             ELSE Half,
         finalization_rate |->
             IF valid_segments # {}
             THEN Float(Cardinality(finalized), Cardinality(valid_segments))
             ELSE Zero]

\* get_stats
GetStats(bufs, t) ==
    LET all_segments == DOMAIN bufs
        valid_segments == {k \in all_segments : IsValid(bufs[k], t)}
        finalized == {k \in valid_segments : IsFinalized(bufs[k])}
        n == Float(Cardinality(valid_segments), 1)
    IN  [total_segments |-> Cardinality(all_segments),
         valid_segments |-> Cardinality(valid_segments),
         finalized_segments |-> Cardinality(finalized),
         avg_samples_per_segment |->
             IF valid_segments # {}
             THEN FDiv(FloatSumOver([k \in valid_segments |-> Float(SampleCount(bufs[k]), 1)],
                                    valid_segments), n)
             ELSE Zero,
         avg_comfort_score |->
             IF valid_segments # {}
             THEN FDiv(FloatSumOver([k \in valid_segments |-> bufs[k].aggregated_score],
                                    valid_segments), n)
             ELSE Half,
         finalization_rate |->
             IF valid_segments # {}
             THEN Float(Cardinality(finalized), Cardinality(valid_segments))
             ELSE Zero]

\* list(buffer.samples)[:limit] for a limit >= 0
FirstN(q, limit) == IF Len(q) <= limit THEN q ELSE SubSeq(q, 1, limit)

\* get_recent_predictions: the records it returns, in the order it returns them
GetRecentPredictions(bufs, k, limit) ==
    IF k \notin DOMAIN bufs THEN <<>> ELSE FirstN(bufs[k].samples, limit)

ExpiredIds(bufs, t) == {k \in DOMAIN bufs : ~IsValid(bufs[k], t)}

\* a sweep that empties the table as soon as one key has expired
WithoutAll(bufs, ids) == IF ids = {} THEN bufs ELSE [k \in {} |-> bufs[k]]

\* del self.buffers[seg_id] for every expired id
Without(bufs, ids) == [k \in (DOMAIN bufs) \ ids |-> bufs[k]]

-----------------------------------------------------------------------------
(* Inputs *)

NominalInput == <<One, One>>

VariedInputs ==
    {<<Zero, Half>>, <<Half, Zero>>, <<Float(3, 2), One>>, <<Half, Float(3, 2)>>}

InUnit(x) == FLeq(Zero, x) /\ FLeq(x, One)

-----------------------------------------------------------------------------
(* The service's operations, called one at a time *)

Init ==
    /\ buffers = <<>>
    /\ now = 0
    /\ ret = [op |-> "none"]
    /\ log = [k \in Keys |-> <<>>]
    /\ swept = [k \in Keys |-> "never"]
    /\ created = [k \in Keys |-> 0]
    /\ cache = <<>>
    /\ tasks = EmptyBag
    /\ inflight = EmptyBag
    /\ running = {}
    /\ lost = FALSE
    /\ past = [k \in Keys |-> {}]

\* every request on a key comes from a fresh vehicle: the n-th one has vehicle_id n
NextVehicle(k) == Len(log[k]) + 1

IsVaried(sample) == <<sample.comfort_score, sample.confidence>> # NominalInput

VariedIn(q) == Cardinality({i \in 1..Len(q) : IsVaried(q[i])})

RECURSIVE SumOver(_, _)
SumOver(f, S) ==
    IF S = {} THEN 0 ELSE LET x == CHOOSE y \in S : TRUE IN f[x] + SumOver(f, S \ {x})

VariedCount == SumOver([k \in Keys |-> VariedIn(log[k])], Keys)

\* the bounds on the requests the clients make
MayIngest(k, score, conf) ==
    /\ Len(log[k]) < (IF k = PrimaryKey THEN MaxIngests ELSE MaxSecondary)
    /\ <<score, conf>> # NominalInput => VariedCount < MaxVaried

\* ingest_prediction(k, score, conf), whatever the bounds on the clients
Ingest(k, score, conf) ==
    /\ \E out \in {IngestOutcome(buffers, k, score, conf, NextVehicle(k), now, created[k] + 1)} :
           /\ buffers' = out.table
           /\ ret' = IF out.raised
                     THEN [op |-> "ingest", key |-> k, raised |-> TRUE]
                     ELSE [op |-> "ingest", key |-> k, raised |-> FALSE,
                           result |-> IngestResult(out.table[k])]
    /\ log' = [log EXCEPT ![k] = Append(@, VehicleSample(score, conf, NextVehicle(k)))]
    /\ created' = [created EXCEPT ![k] = IF k \in DOMAIN buffers THEN @ ELSE @ + 1]
    /\ UNCHANGED <<now, swept, gateway>>

IngestPrediction(k, score, conf) == MayIngest(k, score, conf) /\ Ingest(k, score, conf)

Query(k) ==
    /\ ret' = [op |-> "query", key |-> k, result |-> GetSegmentScore(buffers, k, now)]
    /\ UNCHANGED <<buffers, now, log, swept, created, gateway>>

ListSegments(include_invalid, include_finalized_only) ==
    /\ ret' = [op |-> "list", include_invalid |-> include_invalid,
               include_finalized_only |-> include_finalized_only,
               result |-> GetAllSegments(buffers, include_invalid, include_finalized_only, now)]
    /\ UNCHANGED <<buffers, now, log, swept, created, gateway>>

Stats ==
    /\ ret' = [op |-> "stats", result |-> GetStats(buffers, now)]
    /\ UNCHANGED <<buffers, now, log, swept, created, gateway>>

\* the limits the clients pass to get_recent_predictions (10 is the default)
RecentLimits == {1, 10}

Recent(k, limit) ==
    /\ ret' = [op |-> "recent", key |-> k, limit |-> limit,
               result |-> GetRecentPredictions(buffers, k, limit)]
    /\ UNCHANGED <<buffers, now, log, swept, created, gateway>>

CleanupExpired ==
    LET ids == ExpiredIds(buffers, now)
    IN  /\ buffers' = Without(buffers, ids)
        /\ ret' = [op |-> "cleanup", removed |-> Cardinality(ids)]
        /\ log' = [k \in Keys |-> IF k \in ids THEN <<>> ELSE log[k]]
        /\ swept' = [k \in Keys |-> IF k \in ids
                                    THEN (IF IsFinalized(buffers[k]) THEN "final" ELSE "open")
                                    ELSE swept[k]]
        /\ UNCHANGED <<now, created, gateway>>

\* the clock advances, up to a limit
Clock(limit) ==
    /\ now < limit
    /\ now' = now + 1
    /\ UNCHANGED <<buffers, ret, log, swept, created, gateway>>

Tick == Clock(MaxTime)

Next ==
    \/ \E k \in Keys : IngestPrediction(k, NominalInput[1], NominalInput[2])
    \/ \E k \in Keys, in \in VariedInputs : IngestPrediction(k, in[1], in[2])
    \/ \E k \in Keys : Query(k)
    \/ \E include_invalid, include_finalized_only \in BOOLEAN :
          ListSegments(include_invalid, include_finalized_only)
    \/ Stats
    \/ \E k \in Keys, limit \in RecentLimits : Recent(k, limit)
    \/ CleanupExpired
    \/ Tick

Spec == Init /\ [][Next]_vars

-----------------------------------------------------------------------------
(* The same operations under clients that make short runs over a longer time *)

\* ingests into one buffer of any key
AgingIngests == 3
\* the clock stops here
AgingTime == 2

MayIngestAging(k, score, conf) ==
    /\ Len(log[k]) < AgingIngests
    /\ <<score, conf>> # NominalInput => VariedCount < MaxVaried

AgingNext ==
    \/ \E k \in Keys :
          MayIngestAging(k, NominalInput[1], NominalInput[2])
              /\ Ingest(k, NominalInput[1], NominalInput[2])
    \/ \E k \in Keys, in \in VariedInputs :
          MayIngestAging(k, in[1], in[2]) /\ Ingest(k, in[1], in[2])
    \/ \E k \in Keys : Query(k)
    \/ \E include_invalid, include_finalized_only \in BOOLEAN :
          ListSegments(include_invalid, include_finalized_only)
    \/ Stats
    \/ \E k \in Keys, limit \in RecentLimits : Recent(k, limit)
    \/ CleanupExpired
    \/ Clock(AgingTime)

AgingSpec == Init /\ [][AgingNext]_vars

-----------------------------------------------------------------------------
(* CacheManager *)

\* ttl_seconds = 2592000, in units of 30 days
CacheTTL == 1

\* a put that keeps an existing entry made from a larger window
UpdateSegmentKeepNewer(c, k, score, count, conf, t) ==
    [x \in (DOMAIN c) \cup {k} |->
        IF x = k /\ ~(k \in DOMAIN c /\ c[k].sample_count > count)
        THEN [comfort_score |-> score, sample_count |-> count, confidence |-> conf,
              cached_at |-> t, expires_at |-> t + CacheTTL]
        ELSE c[x]]

\* update_segment: self.cache[segment_id] = {...}
UpdateSegment(c, k, score, count, conf, t) ==
    [x \in (DOMAIN c) \cup {k} |->
        IF x = k
        THEN [comfort_score |-> score, sample_count |-> count, confidence |-> conf,
              cached_at |-> t, expires_at |-> t + CacheTTL]
        ELSE c[x]]

-----------------------------------------------------------------------------
(* The HTTP gateway: the handlers of main.py on the server's event loop *)

\* requests the gateway accepts at once
MaxInflight == 2
\* background tasks and activations outstanding when a handler starts
MaxTasks == 1
\* ingest requests per buffer of the primary key
GwMaxIngests == 11

\* the keys and the non-nominal inputs the clients of the gateway use
GatewayKeys == {PrimaryKey}

GatewayVaried == {<<Zero, Half>>}

\* POST /api/v1/predictions; fresh records that the table had no buffer for the key
\* when the client sent the request
IngestRequest(k, score, conf) ==
    [op |-> "ingest", key |-> k, score |-> score, confidence |-> conf,
     fresh |-> k \notin DOMAIN buffers]

\* POST /api/v1/admin/cleanup
CleanupRequest == [op |-> "cleanup"]

\* a call that carries the sample_count of the window before the insert
UpdateTaskBeforeInsert(k, result) ==
    [segment_id |-> k, comfort_score |-> result.aggregated_score,
     sample_count |-> result.sample_count - 1]

\* the call background_tasks.add_task(cache_mgr.update_segment, ...) schedules
UpdateTask(k, result) ==
    [segment_id |-> k, comfort_score |-> result.aggregated_score,
     sample_count |-> result.sample_count]

\* what a window holds: (aggregate, sample_count)
Held(buf) == <<buf.aggregated_score, Len(buf.samples)>>

\* a task in the queue: the call, and for the record the average confidence of the
\* window when the call was scheduled (the call does not carry it)
Scheduled(k, buf) ==
    [call |-> UpdateTask(k, IngestResult(buf)), window_confidence |-> AverageConfidence(buf)]

\* a scheduler that starts a handler while another one is in the middle of its body
CanStartAnytime == TRUE

\* a server that starts a handler only when it is the only request it has received
CanStartWhenAlone == running = {} /\ BagCardinality(inflight) <= 1

\* the handlers are coroutines without an await: the event loop starts one only
\* when no other is in the middle of its body
CanStart == running = {}

Activation(req) ==
    [req |-> req, pc |-> "fetch", absent |-> req.key \notin DOMAIN buffers,
     seq |-> NextVehicle(req.key), obj |-> 0, own |-> <<>>]

\* the activations that hold a reference to the buffer object of a key in ids
HoldsOneOf(r, ids) ==
    /\ r.pc \in {"append", "aggregate"}
    /\ r.own = <<>>
    /\ r.req.key \in ids

\* the objects of ids leave the table; an activation that holds one keeps it alive
Detach(rs, ids) ==
    {IF HoldsOneOf(r, ids) THEN [r EXCEPT !.own = <<buffers[r.req.key]>>] ELSE r : r \in rs}

\* the buffer object an activation holds
Target(r) == IF r.own = <<>> THEN buffers[r.req.key] ELSE r.own[1]

IngestsOn(k) ==
    Len(log[k])
    + Cardinality({r \in running : r.req.key = k})
    + SumOver([q \in BagToSet(inflight) |->
                  IF q.op = "ingest" /\ q.key = k THEN CopiesIn(q, inflight) ELSE 0],
              BagToSet(inflight))

VariedOutstanding ==
    VariedCount
    + Cardinality({r \in running : <<r.req.score, r.req.confidence>> # NominalInput})
    + SumOver([q \in BagToSet(inflight) |->
                  IF q.op = "ingest" /\ <<q.score, q.confidence>> # NominalInput
                  THEN CopiesIn(q, inflight) ELSE 0],
              BagToSet(inflight))

\* the bounds on the requests the clients send
MaySubmitIngest(k, score, conf) ==
    /\ BagCardinality(inflight) < MaxInflight
    /\ IngestsOn(k) < (IF k = PrimaryKey THEN GwMaxIngests ELSE MaxSecondary)
    /\ <<score, conf>> # NominalInput => VariedOutstanding < MaxVaried

\* a client sends an ingest request
SendIngest(k, score, conf) ==
    /\ inflight' = inflight (+) SetToBag({IngestRequest(k, score, conf)})
    /\ UNCHANGED <<buffers, now, ret, log, swept, created, cache, tasks, running, lost, past>>

SubmitIngest(k, score, conf) ==
    MaySubmitIngest(k, score, conf) /\ SendIngest(k, score, conf)

SubmitCleanup ==
    /\ BagCardinality(inflight) < MaxInflight
    /\ ~BagIn(CleanupRequest, inflight)
    /\ inflight' = inflight (+) SetToBag({CleanupRequest})
    /\ UNCHANGED <<buffers, now, ret, log, swept, created, cache, tasks, running, lost, past>>

\* the handler up to the test  segment_id not in self.buffers
StartIngest(req, limit) ==
    /\ CanStart
    /\ BagIn(req, inflight)
    /\ req.op = "ingest"
    /\ BagCardinality(tasks) + Cardinality(running) < limit
    /\ inflight' = inflight (-) SetToBag({req})
    /\ running' = running \cup {Activation(req)}
    /\ UNCHANGED <<buffers, now, ret, log, swept, created, cache, tasks, lost, past>>

HandleIngestStart(req) == StartIngest(req, MaxTasks)

\* self.buffers[segment_id] = SegmentBuffer(...) if the test found the key absent,
\* then  buffer = self.buffers[segment_id]  (KeyError: the handler answers 500)
HandleIngestFetch(r) ==
    /\ r \in running
    /\ r.pc = "fetch"
    /\ LET k == r.req.key
       IN  IF r.absent
           THEN /\ buffers' = [x \in (DOMAIN buffers) \cup {k} |->
                                  IF x = k THEN SegmentBuffer(k, now, created[k] + 1)
                                  ELSE buffers[x]]
                /\ created' = [created EXCEPT ![k] = @ + 1]
                /\ running' = Detach(running \ {r}, {k} \cap DOMAIN buffers)
                                 \cup {[r EXCEPT !.pc = "append", !.obj = created[k] + 1]}
                /\ UNCHANGED ret
           ELSE IF k \in DOMAIN buffers
           THEN /\ running' = (running \ {r})
                                 \cup {[r EXCEPT !.pc = "append", !.obj = buffers[k].obj]}
                /\ UNCHANGED <<buffers, created, ret>>
           ELSE /\ running' = running \ {r}
                /\ ret' = [op |-> "ingest", key |-> k, raised |-> TRUE, fresh |-> r.req.fresh]
                /\ UNCHANGED <<buffers, created>>
    /\ UNCHANGED <<now, log, swept, cache, tasks, inflight, lost, past>>

\* add_sample: self.samples.append(sample); self.last_updated = utcnow()
HandleIngestAppend(r) ==
    /\ r \in running
    /\ r.pc = "append"
    /\ LET sample == VehicleSample(r.req.score, r.req.confidence, r.seq)
       IN  IF r.own = <<>>
           THEN /\ buffers' = [buffers EXCEPT ![r.req.key] = AppendSample(@, sample, now)]
                /\ running' = (running \ {r}) \cup {[r EXCEPT !.pc = "aggregate"]}
                /\ UNCHANGED lost
           ELSE /\ running' = (running \ {r})
                                 \cup {[r EXCEPT !.pc = "aggregate",
                                                 !.own = <<AppendSample(r.own[1], sample, now)>>]}
                /\ lost' = TRUE
                /\ UNCHANGED buffers
    /\ UNCHANGED <<now, ret, log, swept, created, cache, tasks, inflight, past>>

\* add_sample: self._update_aggregation(); then the rest of the handler: the result
\* tuple, background_tasks.add_task and the response
HandleIngestFinish(r) ==
    /\ r \in running
    /\ r.pc = "aggregate"
    /\ \E out \in {UpdateAggregation(Target(r))} :
           /\ buffers' = IF r.own = <<>> THEN [buffers EXCEPT ![r.req.key] = out.buf]
                         ELSE buffers
           /\ ret' = IF out.raised
                     THEN [op |-> "ingest", key |-> r.req.key, raised |-> TRUE,
                           fresh |-> r.req.fresh]
                     ELSE [op |-> "ingest", key |-> r.req.key, raised |-> FALSE,
                           fresh |-> r.req.fresh, result |-> IngestResult(out.buf)]
           /\ tasks' = IF out.raised THEN tasks
                       ELSE tasks (+) SetToBag({Scheduled(r.req.key, out.buf)})
           /\ past' = IF out.raised THEN past
                      ELSE [past EXCEPT ![r.req.key] = @ \cup {Held(out.buf)}]
    /\ log' = [log EXCEPT ![r.req.key] =
                  Append(@, VehicleSample(r.req.score, r.req.confidence, r.seq))]
    /\ running' = running \ {r}
    /\ UNCHANGED <<now, swept, created, cache, inflight, lost>>

\* the whole cleanup handler: agg_service.cleanup_expired() and the response
HandleCleanup ==
    /\ CanStart
    /\ BagIn(CleanupRequest, inflight)
    /\ inflight' = inflight (-) SetToBag({CleanupRequest})
    /\ LET ids == ExpiredIds(buffers, now)
       IN  /\ buffers' = Without(buffers, ids)
           /\ running' = Detach(running, ids)
           /\ ret' = [op |-> "cleanup", removed |-> Cardinality(ids)]
           /\ log' = [k \in Keys |-> IF k \in ids THEN <<>> ELSE log[k]]
           /\ swept' = [k \in Keys |-> IF k \in ids
                                       THEN (IF IsFinalized(buffers[k]) THEN "final" ELSE "open")
                                       ELSE swept[k]]
    /\ UNCHANGED <<now, created, cache, tasks, lost, past>>

\* a queue that delivers an update only while the window still has the sample_count
\* the update carries
RunTaskIfCurrent(t) ==
    /\ BagIn(t, tasks)
    /\ t.call.segment_id \in DOMAIN buffers
    /\ t.call.sample_count = Len(buffers[t.call.segment_id].samples)
    /\ tasks' = tasks (-) SetToBag({t})
    /\ cache' = UpdateSegment(cache, t.call.segment_id, t.call.comfort_score,
                            t.call.sample_count, Zero, now)
    /\ UNCHANGED <<buffers, now, ret, log, swept, created, inflight, running, lost, past>>

\* the thread pool runs one background task: cache_mgr.update_segment(segment_id,
\* comfort_score, sample_count), confidence left at its default 0.0
RunTask(t) ==
    /\ BagIn(t, tasks)
    /\ tasks' = tasks (-) SetToBag({t})
    /\ cache' = UpdateSegment(cache, t.call.segment_id, t.call.comfort_score,
                            t.call.sample_count, Zero, now)
    /\ UNCHANGED <<buffers, now, ret, log, swept, created, inflight, running, lost, past>>

\* time passes between handlers
GatewayClock(limit) == running = {} /\ Clock(limit)

GatewayTick == GatewayClock(MaxTime)

GatewayNext ==
    \/ \E k \in GatewayKeys : SubmitIngest(k, NominalInput[1], NominalInput[2])
    \/ \E k \in GatewayKeys, in \in GatewayVaried : SubmitIngest(k, in[1], in[2])
    \/ SubmitCleanup
    \/ \E req \in BagToSet(inflight) : HandleIngestStart(req)
    \/ \E r \in running : HandleIngestFetch(r)
    \/ \E r \in running : HandleIngestAppend(r)
    \/ \E r \in running : HandleIngestFinish(r)
    \/ HandleCleanup
    \/ \E t \in BagToSet(tasks) : RunTask(t)
    \/ GatewayTick

GatewaySpec == Init /\ [][GatewayNext]_vars

-----------------------------------------------------------------------------
(* The query side of the gateway *)

\* a > b on floats; any comparison with nan is false
FGt(a, b) == ~FLeq(a, b) /\ ~IsNaN(a) /\ ~IsNaN(b)

Tenths(n) == Float(n, 10)

\* a mapping whose thresholds belong to the better colour
ScoreToColorInclusive(score) ==
    IF ~FGt(Tenths(7), score) /\ ~IsNaN(score) THEN "green"
    ELSE IF ~FGt(Tenths(4), score) /\ ~IsNaN(score) THEN "yellow"
    ELSE "red"

\* score_to_color
ScoreToColor(score) ==
    IF FGt(score, Tenths(7)) THEN "green"
    ELSE IF FGt(score, Tenths(4)) THEN "yellow"
    ELSE "red"

\* del self.cache[segment_id]
CacheDelete(c, k) == [x \in (DOMAIN c) \ {k} |-> c[x]]

\* a lookup that returns an entry whatever its age
CacheGetIgnoringExpiry(c, k, t) ==
    IF k \notin DOMAIN c THEN [entry |-> <<>>, cache |-> c]
    ELSE [entry |-> <<c[k]>>, cache |-> c]

\* get_segment: the entry it returns (<<>> is None) and the cache it leaves
CacheGet(c, k, t) ==
    IF k \notin DOMAIN c THEN [entry |-> <<>>, cache |-> c]
    ELSE IF t > c[k].expires_at THEN [entry |-> <<>>, cache |-> CacheDelete(c, k)]
    ELSE [entry |-> <<c[k]>>, cache |-> c]

\* the fields SegmentComfortResponse requires
RequiredFields ==
    {"segment_id", "comfort_score", "sample_count", "last_updated", "expires_at", "color"}

\* SegmentComfortResponse validates a dict: the required fields are present,
\* comfort_score is in [0,1], sample_count >= 0 and expires_at is not None
ResponseModelAccepts(d) ==
    /\ RequiredFields \subseteq DOMAIN d
    /\ InUnit(d.comfort_score)
    /\ d.sample_count >= 0
    /\ d.expires_at # NoTime

\* the arguments the handlers pass to SegmentComfortResponse for a store snapshot
ResponseFields(k, data) ==
    [segment_id |-> k,
     comfort_score |-> data.comfort_score,
     sample_count |-> data.sample_count,
     last_updated |-> data.last_updated,
     expires_at |-> data.expires_at,
     color |-> ScoreToColor(data.comfort_score)]

\* get_segment_comfort: what the client receives, given the cache lookup's result.
\* A body the response model does not accept is answered with an error status.
GetSegmentComfort(entry, bufs, k, t) ==
    IF entry # <<>>
    THEN IF ResponseModelAccepts(entry[1])
         THEN [status |-> "ok", source |-> "cache", body |-> entry[1]]
         ELSE [status |-> "error", source |-> "cache"]
    ELSE LET segment_data == GetSegmentScore(bufs, k, t)
         IN  IF segment_data = <<>> THEN [status |-> "not_found", source |-> "store"]
             ELSE IF ResponseModelAccepts(ResponseFields(k, segment_data[1]))
                  THEN [status |-> "ok", source |-> "store",
                        body |-> ResponseFields(k, segment_data[1])]
                  ELSE [status |-> "error", source |-> "store"]

\* list_segments: what the client receives (the order of the segments is left out)
ListSegmentsResponse(bufs, valid_only, finalized_only, t) ==
    LET segments == GetAllSegments(bufs, ~valid_only, finalized_only, t)
    IN  IF \A seg \in segments : ResponseModelAccepts(ResponseFields(seg.segment_id, seg))
        THEN [status |-> "ok",
              segments |-> {ResponseFields(seg.segment_id, seg) : seg \in segments},
              total_count |-> Cardinality(segments),
              cached_count |-> Cardinality({seg \in segments : seg.is_valid}),
              expired_count |-> Cardinality({seg \in segments : ~seg.is_valid})]
        ELSE [status |-> "error"]

\* the whole handler of GET /api/v1/segments/{segment_id}
HandleGet(k) ==
    /\ CanStart
    /\ \E got \in {CacheGet(cache, k, now)} :
           /\ cache' = got.cache
           /\ ret' = [op |-> "get", key |-> k,
                      response |-> GetSegmentComfort(got.entry, buffers, k, now)]
    /\ UNCHANGED <<buffers, now, log, swept, created, tasks, inflight, running, lost, past>>

\* the whole handler of GET /api/v1/segments
HandleList(valid_only, finalized_only) ==
    /\ CanStart
    /\ ret' = [op |-> "list", valid_only |-> valid_only, finalized_only |-> finalized_only,
               response |-> ListSegmentsResponse(buffers, valid_only, finalized_only, now)]
    /\ UNCHANGED <<buffers, now, log, swept, created, gateway>>

-----------------------------------------------------------------------------
(* The gateway with each handler as one step, as the event loop runs it, under
   clients that use both keys and all handlers in short runs *)

\* ingests per buffer of the primary key (MaxSecondary for any other key)
MirrorIngests == 2
\* background tasks outstanding when a handler starts
MirrorTasks == 2
\* the clock stops here
MirrorTime == 2

\* the non-nominal input of these clients: a confidence of 0
MirrorVaried == {<<Half, Zero>>}

MayServeIngest(k, score, conf) ==
    /\ BagCardinality(tasks) < MirrorTasks
    /\ Len(log[k]) < (IF k = PrimaryKey THEN MirrorIngests ELSE MaxSecondary)
    /\ <<score, conf>> # NominalInput => VariedCount < MaxVaried

\* an ingest handler that writes the snapshot to the mirror itself before it returns
ServeIngestWriteThrough(k, score, conf) ==
    /\ CanStart
    /\ \E out \in {IngestOutcome(buffers, k, score, conf, NextVehicle(k), now, created[k] + 1)} :
           /\ buffers' = out.table
           /\ ret' = IF out.raised
                     THEN [op |-> "ingest", key |-> k, raised |-> TRUE,
                           fresh |-> k \notin DOMAIN buffers]
                     ELSE [op |-> "ingest", key |-> k, raised |-> FALSE,
                           fresh |-> k \notin DOMAIN buffers,
                           result |-> IngestResult(out.table[k])]
           /\ tasks' = IF out.raised THEN tasks
                       ELSE tasks (+) SetToBag({Scheduled(k, out.table[k])})
           /\ past' = IF out.raised THEN past
                      ELSE [past EXCEPT ![k] = @ \cup {Held(out.table[k])}]
           /\ cache' = IF out.raised THEN cache
                       ELSE UpdateSegment(cache, k, out.table[k].aggregated_score,
                                          Len(out.table[k].samples), Zero, now)
    /\ log' = [log EXCEPT ![k] = Append(@, VehicleSample(score, conf, NextVehicle(k)))]
    /\ created' = [created EXCEPT ![k] = IF k \in DOMAIN buffers THEN @ ELSE @ + 1]
    /\ UNCHANGED <<now, swept, inflight, running, lost>>

\* the whole handler of POST /api/v1/predictions
ServeIngest(k, score, conf) ==
    /\ CanStart
    /\ \E out \in {IngestOutcome(buffers, k, score, conf, NextVehicle(k), now, created[k] + 1)} :
           /\ buffers' = out.table
           /\ ret' = IF out.raised
                     THEN [op |-> "ingest", key |-> k, raised |-> TRUE,
                           fresh |-> k \notin DOMAIN buffers]
                     ELSE [op |-> "ingest", key |-> k, raised |-> FALSE,
                           fresh |-> k \notin DOMAIN buffers,
                           result |-> IngestResult(out.table[k])]
           /\ tasks' = IF out.raised THEN tasks
                       ELSE tasks (+) SetToBag({Scheduled(k, out.table[k])})
           /\ past' = IF out.raised THEN past
                      ELSE [past EXCEPT ![k] = @ \cup {Held(out.table[k])}]
    /\ log' = [log EXCEPT ![k] = Append(@, VehicleSample(score, conf, NextVehicle(k)))]
    /\ created' = [created EXCEPT ![k] = IF k \in DOMAIN buffers THEN @ ELSE @ + 1]
    /\ UNCHANGED <<now, swept, cache, inflight, running, lost>>

\* the whole handler of POST /api/v1/admin/cleanup
ServeCleanup == CanStart /\ CleanupExpired

MirrorNext ==
    \/ \E k \in Keys :
          MayServeIngest(k, NominalInput[1], NominalInput[2])
              /\ ServeIngest(k, NominalInput[1], NominalInput[2])
    \/ \E k \in Keys, in \in MirrorVaried :
          MayServeIngest(k, in[1], in[2]) /\ ServeIngest(k, in[1], in[2])
    \/ ServeCleanup
    \/ \E t \in BagToSet(tasks) : RunTask(t)
    \/ \E k \in Keys : HandleGet(k)
    \/ \E valid_only, finalized_only \in BOOLEAN : HandleList(valid_only, finalized_only)
    \/ GatewayClock(MirrorTime)

MirrorSpec == Init /\ [][MirrorNext]_vars

-----------------------------------------------------------------------------
(* CacheManager called one operation at a time, beside a store that is in use *)

\* ingests per key of the store beside it
CacheIngests == 1
\* the clock stops here
CacheTime == 2

\* a sweep that also removes the entries that expire at this very instant
CacheCleanupExpiredInclusive(c, t) ==
    LET expired_keys == {key \in DOMAIN c : t >= c[key].expires_at}
    IN  [removed |-> Cardinality(expired_keys),
         cache |-> [x \in (DOMAIN c) \ expired_keys |-> c[x]]]

\* cleanup_expired of the cache: the count it returns and the cache it leaves
CacheCleanupExpired(c, t) ==
    LET expired_keys == {key \in DOMAIN c : t > c[key].expires_at}
    IN  [removed |-> Cardinality(expired_keys),
         cache |-> [x \in (DOMAIN c) \ expired_keys |-> c[x]]]

\* clear
CacheClear(c) == <<>>

\* size
CacheSize(c) == Cardinality(DOMAIN c)

\* the snapshots the callers put: (comfort_score, sample_count)
PutInputs == {<<One, 1>>, <<Half, 2>>}

\* update_segment(k, score, count), confidence left at its default
MirrorPut(k, score, count) ==
    /\ cache' = UpdateSegment(cache, k, score, count, Zero, now)
    /\ ret' = [op |-> "mirror_put", key |-> k]
    /\ UNCHANGED <<buffers, now, log, swept, created, tasks, inflight, running, lost, past>>

\* get_segment(k)
MirrorGet(k) ==
    /\ \E got \in {CacheGet(cache, k, now)} :
           /\ cache' = got.cache
           /\ ret' = [op |-> "mirror_get", key |-> k, result |-> got.entry]
    /\ UNCHANGED <<buffers, now, log, swept, created, tasks, inflight, running, lost, past>>

\* cleanup_expired()
MirrorSweep ==
    /\ \E out \in {CacheCleanupExpired(cache, now)} :
           /\ cache' = out.cache
           /\ ret' = [op |-> "mirror_sweep", removed |-> out.removed]
    /\ UNCHANGED <<buffers, now, log, swept, created, tasks, inflight, running, lost, past>>

\* clear(), as the handler of POST /api/v1/admin/cache-clear calls it
MirrorClear ==
    /\ cache' = CacheClear(cache)
    /\ ret' = [op |-> "mirror_clear"]
    /\ UNCHANGED <<buffers, now, log, swept, created, tasks, inflight, running, lost, past>>

\* size()
MirrorSize ==
    /\ ret' = [op |-> "mirror_size", result |-> CacheSize(cache)]
    /\ UNCHANGED <<buffers, now, log, swept, created, gateway>>

CacheNext ==
    \/ \E k \in Keys, in \in PutInputs : MirrorPut(k, in[1], in[2])
    \/ \E k \in Keys : MirrorGet(k)
    \/ MirrorSweep
    \/ MirrorClear
    \/ MirrorSize
    \/ \E k \in Keys :
          Len(log[k]) < CacheIngests /\ Ingest(k, NominalInput[1], NominalInput[2])
    \/ Clock(CacheTime)

CacheSpec == Init /\ [][CacheNext]_vars

-----------------------------------------------------------------------------
(* The gateway, each handler one step, under clients that ingest, query single
   keys and clear the mirror, and neither list nor sweep the store *)

\* the whole handler of POST /api/v1/admin/cache-clear
ServeClear == CanStart /\ MirrorClear

\* a scheduled background task runs
RunSomeTask == \E t \in BagToSet(tasks) : RunTask(t)

WriteNext ==
    \/ \E k \in Keys :
          MayServeIngest(k, NominalInput[1], NominalInput[2])
              /\ ServeIngest(k, NominalInput[1], NominalInput[2])
    \/ \E k \in Keys, in \in MirrorVaried :
          MayServeIngest(k, in[1], in[2]) /\ ServeIngest(k, in[1], in[2])
    \/ ServeClear
    \/ RunSomeTask
    \/ \E k \in Keys : HandleGet(k)
    \/ GatewayClock(MirrorTime)

WriteSpec == Init /\ [][WriteNext]_vars

\* the same, the server running every scheduled task: Starlette runs the tasks of
\* a request in the thread pool as soon as its response has been sent
FairWriteSpec == WriteSpec /\ WF_vars(RunSomeTask)

-----------------------------------------------------------------------------
(* The ingest handler in its steps, under clients that send ingests on both keys
   at once; the event loop runs every handler it has started to its end and starts
   the requests it has received *)

\* ingest requests per key
PairIngests == 2
\* requests the gateway has received and not started
PairInflight == 3
\* background tasks and activations outstanding when a handler starts
PairTasks == 2

MaySendPair(k) ==
    /\ BagCardinality(inflight) < PairInflight
    /\ IngestsOn(k) < PairIngests

\* the event loop starts the handler of a request it has received
StartSomeIngest == \E req \in BagToSet(inflight) : StartIngest(req, PairTasks)

\* the running handler executes the next part of its body
StepSomeHandler ==
    \E r \in running :
        HandleIngestFetch(r) \/ HandleIngestAppend(r) \/ HandleIngestFinish(r)

PairNext ==
    \/ \E k \in Keys : MaySendPair(k) /\ SendIngest(k, NominalInput[1], NominalInput[2])
    \/ StartSomeIngest
    \/ StepSomeHandler
    \/ RunSomeTask

PairSpec ==
    /\ Init /\ [][PairNext]_vars
    /\ WF_vars(StartSomeIngest) /\ WF_vars(StepSomeHandler) /\ WF_vars(RunSomeTask)

-----------------------------------------------------------------------------
(* The store fed with the predictions of the documented example, in any order *)

\* scores [0.7, 0.8, 0.6] with confidences [0.9, 0.95, 0.8]
ExampleInputs ==
    << <<Float(7, 10), Float(9, 10)>>,
       <<Float(8, 10), Float(95, 100)>>,
       <<Float(6, 10), Float(8, 10)>> >>

\* ingests per key
ExampleIngests == 3

ExampleNext ==
    \/ \E k \in Keys, i \in 1..Len(ExampleInputs) :
          /\ Len(log[k]) < ExampleIngests
          /\ Ingest(k, ExampleInputs[i][1], ExampleInputs[i][2])
    \/ \E k \in Keys : Query(k)

ExampleSpec == Init /\ [][ExampleNext]_vars

-----------------------------------------------------------------------------
(* The arguments the store can be constructed with *)

\* AggregationService(segment_buffer_limit, ttl_days), ttl_days in units of 30 days
ServiceConfigurations == [segment_buffer_limit : {2, 10}, ttl_days : {1, 2}]

\* __init__ keeps both arguments in fields of the service; no method of the
\* service or of SegmentBuffer reads either field, so the store behaves in the
\* same way under every configuration
ServiceFields(cfg) == [BUFFER_LIMIT |-> cfg.segment_buffer_limit, TTL |-> cfg.ttl_days]

-----------------------------------------------------------------------------
(* score_to_color applied to the scores of [0, 1] in steps of one hundredth *)

\* scores are n / ColorGrid for n in 0..ColorGrid
ColorGrid == 100

ColorScores == {Float(n, ColorGrid) : n \in 0..ColorGrid}

\* score_to_color(score), as both handlers define it
MapColor(score) ==
    /\ ret' = [op |-> "color", score |-> score, color |-> ScoreToColor(score)]
    /\ UNCHANGED <<buffers, now, log, swept, created, gateway>>

ColorNext == \E score \in ColorScores : MapColor(score)

ColorSpec == Init /\ [][ColorNext]_vars

-----------------------------------------------------------------------------
(* The route evaluation handler beside a store that ingests, ages and is swept *)

\* a - b on floats
FSub(a, b) == FAdd(a, FMul(Float(-1, 1), b))

RECURSIVE Accumulate(_, _)
\* total += x for the first n items of xs, from 0.0
Accumulate(xs, n) == IF n = 0 THEN Zero ELSE FAdd(Accumulate(xs, n - 1), xs[n])

\* the body of the loop of evaluate_route for one segment of the route
SegmentDetail(bufs, segment_id, t) ==
    LET segment_data == GetSegmentScore(bufs, segment_id, t)
    IN  IF segment_data # <<>>
        THEN [segment_id |-> segment_id,
              comfort_score |-> segment_data[1].comfort_score,
              comfort_cost |-> FSub(One, segment_data[1].comfort_score),
              time_cost |-> One,
              known |-> TRUE]
        ELSE [segment_id |-> segment_id,
              comfort_score |-> Half,
              comfort_cost |-> Half,
              time_cost |-> One,
              known |-> FALSE]

\* a route evaluation that leaves the unknown segments out of the averages
EvaluateRouteKnownOnly(bufs, segments, time_weight, comfort_weight, t) ==
    LET all_details == [i \in 1..Len(segments) |-> SegmentDetail(bufs, segments[i], t)]
        segment_details == SelectSeq(all_details, LAMBDA d : d.known)
        n == Len(segment_details)
        n_segments == IF n > 0 THEN n ELSE 1
        avg_time_cost ==
            FDiv(Accumulate([i \in 1..n |-> segment_details[i].time_cost], n),
                 Float(n_segments, 1))
        avg_comfort_cost ==
            FDiv(Accumulate([i \in 1..n |-> segment_details[i].comfort_cost], n),
                 Float(n_segments, 1))
    IN  [total_cost |-> FAdd(FMul(avg_time_cost, time_weight),
                             FMul(avg_comfort_cost, comfort_weight)),
         time_cost |-> avg_time_cost,
         comfort_cost |-> avg_comfort_cost,
         average_comfort |->
             IF n > 0
             THEN FDiv(Accumulate([i \in 1..n |-> segment_details[i].comfort_score], n),
                       Float(n, 1))
             ELSE Half,
         segments |-> all_details]

\* evaluate_route: the RouteEvaluationResponse it returns
EvaluateRoute(bufs, segments, time_weight, comfort_weight, t) ==
    LET n == Len(segments)
        segment_details == [i \in 1..n |-> SegmentDetail(bufs, segments[i], t)]
        total_comfort_cost == Accumulate([i \in 1..n |-> segment_details[i].comfort_cost], n)
        total_time_cost == Accumulate([i \in 1..n |-> segment_details[i].time_cost], n)
        n_segments == IF segments # <<>> THEN n ELSE 1
        avg_time_cost == FDiv(total_time_cost, Float(n_segments, 1))
        avg_comfort_cost == FDiv(total_comfort_cost, Float(n_segments, 1))
    IN  [total_cost |-> FAdd(FMul(avg_time_cost, time_weight),
                             FMul(avg_comfort_cost, comfort_weight)),
         time_cost |-> avg_time_cost,
         comfort_cost |-> avg_comfort_cost,
         average_comfort |->
             IF segments # <<>>
             THEN FDiv(Accumulate([i \in 1..n |-> segment_details[i].comfort_score], n),
                       Float(n, 1))
             ELSE Half,
         segments |-> segment_details]

\* segments of a route
RouteLen == 2
\* ingests per key
RouteIngests == 2
\* the clock stops here
RouteTime == 1

\* the routes a client asks about: any keys, repeated or not, none included
Routes == UNION {[1..n -> Keys] : n \in 0..RouteLen}

\* (time_weight, comfort_weight), each in [0, 1] as the request model demands
RouteWeights == {<<Half, Half>>, <<Float(1, 4), Float(3, 4)>>}

\* what the clients ingest beside (1, 1): another score, and a zero confidence
RouteVaried == {<<Half, One>>, <<Half, Zero>>}

\* POST /api/v1/routes/evaluate
HandleEvaluate(segments, time_weight, comfort_weight) ==
    /\ CanStart
    /\ \E out \in {EvaluateRoute(buffers, segments, time_weight, comfort_weight, now)} :
           ret' = [op |-> "evaluate", segments |-> segments,
                   time_weight |-> time_weight, comfort_weight |-> comfort_weight,
                   response |-> out]
    /\ UNCHANGED <<buffers, now, log, swept, created, gateway>>

RouteNext ==
    \/ \E k \in Keys :
          Len(log[k]) < RouteIngests /\ Ingest(k, NominalInput[1], NominalInput[2])
    \/ \E k \in Keys, in \in RouteVaried :
          Len(log[k]) < RouteIngests /\ Ingest(k, in[1], in[2])
    \/ CleanupExpired
    \/ Clock(RouteTime)
    \/ \E segments \in Routes, w \in RouteWeights : HandleEvaluate(segments, w[1], w[2])

RouteSpec == Init /\ [][RouteNext]_vars

-----------------------------------------------------------------------------
(* The store under clients that ingest on a key at time 0 and afterwards only
   when the key has no window or its window has expired *)

\* the client of k lets the window of k expire before it ingests again
MayRevive(k) == k \in DOMAIN buffers => (now = 0 \/ ~IsValid(buffers[k], now))

\* what the clients ingest beside (1, 1)
ReviveVaried == {<<Half, One>>}

ReviveNext ==
    \/ \E k \in Keys :
          /\ MayRevive(k) /\ MayIngest(k, NominalInput[1], NominalInput[2])
          /\ Ingest(k, NominalInput[1], NominalInput[2])
    \/ \E k \in Keys, in \in ReviveVaried :
          MayRevive(k) /\ MayIngest(k, in[1], in[2]) /\ Ingest(k, in[1], in[2])
    \/ \E k \in Keys : Query(k)
    \/ CleanupExpired
    \/ Clock(MaxTime)

ReviveSpec == Init /\ [][ReviveNext]_vars

-----------------------------------------------------------------------------
(* CacheManager and the store, each called one operation at a time *)

\* a listing that leaves out the entries that expire at this very instant
CacheGetAllStrict(c, t) ==
    LET live == {key \in DOMAIN c : t < c[key].expires_at}
    IN  [key \in live |-> c[key]]

\* get_all: the entries with utcnow() <= expires_at
CacheGetAll(c, t) ==
    LET live == {key \in DOMAIN c : t <= c[key].expires_at}
    IN  [key \in live |-> c[key]]

\* get_all()
MirrorGetAll ==
    /\ ret' = [op |-> "mirror_get_all", result |-> CacheGetAll(cache, now)]
    /\ UNCHANGED <<buffers, now, log, swept, created, gateway>>

EdgeNext ==
    \/ CacheNext
    \/ MirrorGetAll
    \/ \E k \in Keys : Query(k)
    \/ CleanupExpired

EdgeSpec == Init /\ [][EdgeNext]_vars

-----------------------------------------------------------------------------
(* Vocabulary of the properties *)

\* the last n items of a sequence
LastN(q, n) == IF Len(q) <= n THEN q ELSE SubSeq(q, Len(q) - n + 1, Len(q))

InUnitSample(sample) == InUnit(sample.comfort_score) /\ InUnit(sample.confidence)

\* every sample is an Observation of the data model: score and confidence in [0,1]
InUnitWindow(q) == \A i \in 1..Len(q) : InUnitSample(q[i])

SomeConfidence(q) == \E i \in 1..Len(q) : q[i].confidence # Zero

NoConfidence(q) == q # <<>> /\ \A i \in 1..Len(q) : q[i].confidence = Zero

RECURSIVE SumConfidence(_, _)
SumConfidence(q, i) ==
    IF i > Len(q) THEN Zero ELSE FAdd(q[i].confidence, SumConfidence(q, i + 1))

RECURSIVE SumScoreTimesConfidence(_, _)
SumScoreTimesConfidence(q, i) ==
    IF i > Len(q) THEN Zero
    ELSE FAdd(FMul(q[i].comfort_score, q[i].confidence), SumScoreTimesConfidence(q, i + 1))

RECURSIVE SumScore(_, _)
SumScore(q, i) ==
    IF i > Len(q) THEN Zero ELSE FAdd(q[i].comfort_score, SumScore(q, i + 1))

\* x is the mean of the scores of q weighted by confidence / (sum of confidences):
\* x * sum(c) = sum(s * c)
IsWeightedMean(q, x) ==
    IsFinite(x) /\ FMul(x, SumConfidence(q, 1)) = SumScoreTimesConfidence(q, 1)

\* x is the plain mean of the scores of q: x * len(q) = sum(s)
IsPlainMean(q, x) ==
    IsFinite(x) /\ FMul(x, Float(Len(q), 1)) = SumScore(q, 1)

\* the aggregate a query of k reports now
Queried(k) == GetSegmentScore(buffers, k, now)[1]

\* the case of C1 for key k: its window holds Observations, one with confidence > 0
WeightedCase(k) ==
    /\ k \in DOMAIN buffers
    /\ InUnitWindow(buffers[k].samples)
    /\ SomeConfidence(buffers[k].samples)

-----------------------------------------------------------------------------
(* C1 *)

\* C1: after every ingest, whenever a key's window holds Observations of which at
\* least one has confidence > 0, the aggregate of the window, the aggregate a query of
\* the key reports, and the aggregate the last ingest or query returned for it are
\* the confidence-weighted mean of exactly the samples now in the window.
C1_AggregateIsWeightedMean ==
    /\ \A k \in Keys : WeightedCase(k) =>
          /\ IsWeightedMean(buffers[k].samples, buffers[k].aggregated_score)
          /\ IsWeightedMean(buffers[k].samples, Queried(k).comfort_score)
    /\ (ret.op = "ingest" /\ WeightedCase(ret.key)) =>
          IsWeightedMean(buffers[ret.key].samples, ret.result.aggregated_score)
    /\ (ret.op = "query" /\ WeightedCase(ret.key)) =>
          IsWeightedMean(buffers[ret.key].samples, ret.result[1].comfort_score)

\* an ingest has just evicted the oldest sample of a full window whose samples
\* differ in score and confidence: the aggregate is a weighted mean that is not the
\* plain mean, over a window that no longer holds the first sample
C1_Witness ==
    /\ ret.op = "ingest"
    /\ WeightedCase(ret.key)
    /\ Len(log[ret.key]) > MaxLen
    /\ \E i \in 1..Len(buffers[ret.key].samples) :
          buffers[ret.key].samples[i].confidence = Half
    /\ ~IsPlainMean(buffers[ret.key].samples, ret.result.aggregated_score)

-----------------------------------------------------------------------------
(* C2 *)

\* C2: a window never holds more than 10 samples, and it holds exactly the last
\* min(n, 10) of the n samples ingested into it, in ingest order; the aggregate is
\* computed from those alone.
C2_WindowIsLastTen ==
    \A k \in DOMAIN buffers :
        /\ Len(buffers[k].samples) <= 10
        /\ buffers[k].samples = LastN(log[k], 10)
        /\ WeightedCase(k) =>
              IsWeightedMean(LastN(log[k], 10), buffers[k].aggregated_score)

\* an 11th sample went into a full window
C2_Witness ==
    \E k \in DOMAIN buffers :
        /\ Len(log[k]) = 11
        /\ Len(buffers[k].samples) = 10
        /\ buffers[k].samples[1] = log[k][2]
        /\ buffers[k].samples[10] = log[k][11]

-----------------------------------------------------------------------------
(* C3 *)

\* C3: an ingest whose score or confidence lies outside [0,1] is rejected with an
\* error and mutates nothing: the table of windows is unchanged by the call.
C3_OutOfRangeRejected ==
    [][\A k \in Keys :
          (Len(log'[k]) = Len(log[k]) + 1 /\ ~InUnitSample(log'[k][Len(log'[k])]))
              => (buffers' = buffers /\ ret'.op = "ingest" /\ ret'.raised)]_vars

-----------------------------------------------------------------------------
(* C4 *)

\* C4: when every sample in a window of Observations has confidence 0, the
\* aggregate is the unweighted mean of the window's scores, a defined number.
C4_ZeroConfidenceFallsBack ==
    \A k \in DOMAIN buffers :
        (InUnitWindow(buffers[k].samples) /\ NoConfidence(buffers[k].samples))
            => IsPlainMean(buffers[k].samples, buffers[k].aggregated_score)

-----------------------------------------------------------------------------
(* C5 *)

\* C5: the aggregate of every window of Observations is a defined number in [0,1],
\* and the aggregate of a window without samples is 0.5.
C5_AggregateInUnit ==
    \A k \in DOMAIN buffers :
        /\ InUnitWindow(buffers[k].samples) => InUnit(buffers[k].aggregated_score)
        /\ buffers[k].samples = <<>> => buffers[k].aggregated_score = Half

-----------------------------------------------------------------------------
(* C6 *)

\* C6: the finalized flag that ingest returns and query reports for a key is true
\* exactly when the key's sample count is at least 10: false through the first 9
\* ingests into the window and true from the 10th on.
C6_FinalizedIffTen ==
    /\ \A k \in DOMAIN buffers :
          /\ Queried(k).sample_count = (IF Len(log[k]) < 10 THEN Len(log[k]) ELSE 10)
          /\ Queried(k).is_finalized = (Len(log[k]) >= 10)
    /\ ret.op = "ingest" =>
          /\ ret.result.is_finalized = (ret.result.sample_count >= 10)
          /\ ret.result.is_finalized = (Len(log[ret.key]) >= 10)
    /\ (ret.op = "query" /\ ret.result # <<>>) =>
          /\ ret.result[1].is_finalized = (ret.result[1].sample_count >= 10)
          /\ ret.result[1].is_finalized = (Len(log[ret.key]) >= 10)

\* the 10th ingest into a window has just returned finalized
C6_Witness ==
    /\ ret.op = "ingest"
    /\ Len(log[ret.key]) = 10
    /\ ret.result.sample_count = 10
    /\ ret.result.is_finalized

-----------------------------------------------------------------------------
(* C7 *)

\* C7: a finalized window stays finalized under every operation (ingest, query, list,
\* stats, the passing of time) that keeps its key, a list that returns it reports it
\* finalized, and only a sweep removes the key; the ingest that brings a key into the
\* table creates a window with one sample that is not finalized.
C7_FinalizedUntilSwept ==
    [][\A k \in Keys :
          /\ (k \in DOMAIN buffers /\ IsFinalized(buffers[k])) =>
                IF k \in DOMAIN buffers'
                THEN /\ IsFinalized(buffers'[k])
                     /\ GetSegmentScore(buffers', k, now')[1].is_finalized
                     /\ ret'.op = "list" =>
                           \A d \in ret'.result : d.segment_id = k => d.is_finalized
                ELSE ret'.op = "cleanup"
          /\ (k \notin DOMAIN buffers /\ k \in DOMAIN buffers') =>
                /\ SampleCount(buffers'[k]) = 1
                /\ ~IsFinalized(buffers'[k])
                /\ ret'.op = "ingest" /\ ret'.key = k
                /\ ret'.result.sample_count = 1
                /\ ~ret'.result.is_finalized]_vars

\* a finalized window took a further ingest and stayed finalized, was swept, and
\* the key has just been ingested again into a new window of one sample
C7_Witness ==
    /\ ret.op = "ingest"
    /\ swept[ret.key] = "final"
    /\ ret.result.sample_count = 1
    /\ ~ret.result.is_finalized
    /\ buffers[ret.key].obj = 2

-----------------------------------------------------------------------------
(* C8 *)

\* C8: whenever no handler is in the middle of its body, every key's window holds
\* exactly the last min(k, 10) of the k ingests completed on it since it was created,
\* in completion order and with none lost (a key without a completed ingest has no
\* window), its expiry was recomputed from its last update, its aggregate matches
\* the window, and the last ingest response reports the window's count.
C8_IngestsAtomic ==
    running = {} =>
        /\ \A k \in Keys :
              IF log[k] = <<>> THEN k \notin DOMAIN buffers
              ELSE /\ k \in DOMAIN buffers
                   /\ buffers[k].samples = LastN(log[k], 10)
                   /\ buffers[k].expires_at = buffers[k].last_updated + TTL
                   /\ WeightedCase(k) =>
                         IsWeightedMean(LastN(log[k], 10), buffers[k].aggregated_score)
        /\ (ret.op = "ingest" /\ ~ret.raised) =>
              /\ ret.result.sample_count = Len(LastN(log[ret.key], 10))
              /\ ret.result.aggregated_score = buffers[ret.key].aggregated_score

\* two ingests of one key were sent while the key had no window, and both have
\* completed: the second one answers with a window of two samples
C8_Witness ==
    /\ running = {}
    /\ ret.op = "ingest"
    /\ ret.fresh
    /\ ~ret.raised
    /\ ret.result.sample_count = 2
    /\ Len(log[ret.key]) = 2

-----------------------------------------------------------------------------
(* C9 *)

\* C9: no sample is ever appended to a buffer that is not in the table, an ingest
\* that has fetched its buffer finds that same buffer object in the table until it
\* returns, and the sweep runs only while no ingest is in the middle of its body.
C9_SweepExcludesIngest ==
    /\ [](/\ ~lost
          /\ \A r \in running :
                r.pc \in {"append", "aggregate"} =>
                    /\ r.own = <<>>
                    /\ r.req.key \in DOMAIN buffers
                    /\ buffers[r.req.key].obj = r.obj)
    /\ [][(BagIn(CleanupRequest, inflight) /\ ~BagIn(CleanupRequest, inflight'))
             => running = {}]_vars

\* an ingest was sent for a key that had a window, a sweep removed that window
\* before the ingest was handled, and the ingest has completed on a new window
C9_Witness ==
    /\ running = {}
    /\ ret.op = "ingest"
    /\ ~ret.fresh
    /\ ~ret.raised
    /\ ret.result.sample_count = 1
    /\ swept[ret.key] # "never"
    /\ buffers[ret.key].obj = 2
    /\ ~lost

-----------------------------------------------------------------------------
(* C10 *)

\* C10: a query of a key finds nothing exactly when the key was never ingested or
\* a sweep removed it since its last ingest; otherwise it returns the snapshot of the
\* key's current window, expired or not.
C10_NotFoundIffAbsent ==
    /\ \A k \in Keys :
          /\ (GetSegmentScore(buffers, k, now) = <<>>) <=> (log[k] = <<>>)
          /\ log[k] # <<>> =>
                /\ Queried(k).sample_count = Len(buffers[k].samples)
                /\ Queried(k).comfort_score = buffers[k].aggregated_score
                /\ Queried(k).last_updated = buffers[k].last_updated
                /\ Queried(k).expires_at = buffers[k].expires_at
    /\ ret.op = "query" => ((ret.result = <<>>) <=> (log[ret.key] = <<>>))

\* a query has just found nothing for a key that was ingested and then swept
C10_Witness ==
    /\ ret.op = "query"
    /\ ret.result = <<>>
    /\ swept[ret.key] # "never"

-----------------------------------------------------------------------------
(* C11 *)

\* a step of the sweep that changed the table or what the caller was told
SweepStep == ret'.op = "cleanup" /\ <<ret', buffers'>> # <<ret, buffers>>

\* the key's last ingest lies more than TTL in the past
PastTTL(k) == k \in DOMAIN buffers /\ now > buffers[k].last_updated + TTL

\* C11: a key whose last ingest lies more than TTL in the past is still returned by
\* a query, with is_valid false, until a sweep runs; the next sweep removes it, and
\* a query then finds nothing.
C11_ExpiredReportedThenSwept ==
    /\ [](\A k \in Keys : PastTTL(k) =>
            /\ GetSegmentScore(buffers, k, now) # <<>>
            /\ ~Queried(k).is_valid
            /\ Queried(k).sample_count = Len(buffers[k].samples))
    /\ [][SweepStep => \A k \in Keys : PastTTL(k) =>
            /\ k \notin DOMAIN buffers'
            /\ GetSegmentScore(buffers', k, now') = <<>>]_vars
    /\ [][\A k \in Keys : (PastTTL(k) /\ k \notin DOMAIN buffers') => SweepStep]_vars

\* a query has just returned, with is_valid false, a key last ingested two TTLs ago
C11_Witness ==
    /\ ret.op = "query"
    /\ PastTTL(ret.key)
    /\ ret.result # <<>>
    /\ ~ret.result[1].is_valid
    /\ ret.result[1].last_updated + TTL < now

-----------------------------------------------------------------------------
(* C12 *)

\* C12: a sweep removes exactly the keys with now >= expires_at, leaves every other
\* key with its window, aggregate and times unchanged, and returns the number of
\* keys it removed.
C12_SweepRemovesExactlyExpired ==
    [][SweepStep =>
          /\ DOMAIN buffers' = {k \in DOMAIN buffers : now < buffers[k].expires_at}
          /\ \A k \in DOMAIN buffers' : buffers'[k] = buffers[k]
          /\ ret'.removed = Cardinality({k \in DOMAIN buffers : now >= buffers[k].expires_at})
          /\ ret'.removed = Cardinality(DOMAIN buffers) - Cardinality(DOMAIN buffers')]_vars

\* a sweep at the instant of one key's expiry has just removed that key and kept
\* the other one, which has not expired
C12_Witness ==
    /\ ret.op = "cleanup"
    /\ ret.removed = 1
    /\ now = 1
    /\ \E k \in Keys : k \notin DOMAIN buffers /\ swept[k] # "never" /\ created[k] = 1
    /\ \E k \in DOMAIN buffers : now < buffers[k].expires_at

-----------------------------------------------------------------------------
(* C13 *)

\* C13: a key leaves the table only in a sweep that finds it expired; a window's
\* samples, aggregate, last_updated and expires_at change only in an ingest of its
\* own key; query, list, recent_samples and stats change nothing in the table.
C13_OnlySweepRemoves ==
    [][/\ \A k \in DOMAIN buffers :
             /\ k \notin DOMAIN buffers' =>
                   /\ SweepStep
                   /\ now >= buffers[k].expires_at
             /\ (k \in DOMAIN buffers' /\ buffers'[k] # buffers[k]) =>
                   /\ ret'.op = "ingest"
                   /\ ret'.key = k
                   /\ log'[k] # log[k]
       /\ ret'.op \in {"query", "list", "recent", "stats"} => buffers' = buffers
       /\ \A k \in Keys : log'[k] = log[k] =>
             (k \in DOMAIN buffers => (k \notin DOMAIN buffers' \/ buffers'[k] = buffers[k]))]_vars

\* recent_samples has just returned the full window of a key that has expired and
\* has not been swept: the key and its ten samples are still in the table
C13_Witness ==
    /\ ret.op = "recent"
    /\ ret.key \in DOMAIN buffers
    /\ ~IsValid(buffers[ret.key], now)
    /\ Len(ret.result) = 10
    /\ ret.result = buffers[ret.key].samples

-----------------------------------------------------------------------------
(* C14 *)

\* C14: every window that holds a sample has expires_at = last_updated + TTL, its
\* last_updated is never in the future, and an ingest sets the key's last_updated to
\* the time of that ingest and so its expiry to TTL after it.
C14_ExpiryFollowsLastIngest ==
    /\ [](\A k \in DOMAIN buffers :
            buffers[k].samples # <<>> =>
                /\ buffers[k].expires_at = buffers[k].last_updated + TTL
                /\ buffers[k].last_updated <= now
                /\ Queried(k).expires_at = Queried(k).last_updated + TTL)
    /\ [][\A k \in Keys :
            log'[k] # log[k] /\ log'[k] # <<>> =>
                /\ buffers'[k].last_updated = now
                /\ buffers'[k].expires_at = now + TTL]_vars
    /\ [][\A k \in DOMAIN buffers :
            (k \in DOMAIN buffers' /\ log'[k] = log[k]) =>
                buffers'[k].last_updated = buffers[k].last_updated]_vars

\* an ingest at time 2 into a window last ingested at time 0, expired and never
\* swept, has just moved the key's expiry from 1 to 3
C14_Witness ==
    /\ ret.op = "ingest"
    /\ now = 2
    /\ Len(log[ret.key]) = 2
    /\ created[ret.key] = 1
    /\ swept[ret.key] = "never"
    /\ buffers[ret.key].last_updated = 2
    /\ buffers[ret.key].expires_at = 2 + TTL

-----------------------------------------------------------------------------
(* C15 *)

RECURSIVE Reverse(_)
Reverse(q) == IF q = <<>> THEN <<>> ELSE Append(Reverse(Tail(q)), Head(q))

\* the limit most recently ingested samples of a window, most recent first
MostRecentFirst(q, limit) == Reverse(LastN(q, limit))

\* C15: what recent_samples(key, limit) returned is the key's limit most recently
\* ingested samples, most recent first, and the empty sequence for an absent key.
C15_RecentMostRecentFirst ==
    ret.op = "recent" =>
        ret.result = IF ret.key \in DOMAIN buffers
                     THEN MostRecentFirst(buffers[ret.key].samples, ret.limit)
                     ELSE <<>>

\* recent_samples with limit 1 has just returned the oldest sample of a window of
\* several samples
C15_Witness ==
    /\ ret.op = "recent"
    /\ ret.limit = 1
    /\ ret.key \in DOMAIN buffers
    /\ Len(buffers[ret.key].samples) >= 2
    /\ ret.result = <<buffers[ret.key].samples[1]>>
    /\ ret.result # <<buffers[ret.key].samples[Len(buffers[ret.key].samples)]>>

-----------------------------------------------------------------------------
(* C16 *)

\* the keys that have not expired, and those of them that are finalized
ValidKeys == {k \in DOMAIN buffers : now < buffers[k].expires_at}

FinalizedValidKeys == {k \in ValidKeys : Len(buffers[k].samples) >= 10}

\* what a stats record must say about the finalization rate in the current state
RateIsRight(stats) ==
    /\ stats.valid_segments = Cardinality(ValidKeys)
    /\ stats.finalized_segments = Cardinality(FinalizedValidKeys)
    /\ IF ValidKeys = {} THEN stats.finalization_rate = Zero
       ELSE /\ IsFinite(stats.finalization_rate)
            /\ FMul(stats.finalization_rate, Float(stats.valid_segments, 1))
                   = Float(stats.finalized_segments, 1)

\* C16: the finalization rate stats reports is exactly 0 when no key is valid and
\* finalized_keys / valid_keys otherwise, finalized_keys counting only the keys that
\* are both valid and finalized; this holds for what stats would return in every
\* state and for what each call of stats did return.
C16_FinalizationRate ==
    /\ [](RateIsRight(GetStats(buffers, now)))
    /\ [][(ret'.op = "stats" /\ ret' # ret) =>
             /\ ret'.result = GetStats(buffers, now)
             /\ ret'.result.finalization_rate =
                   IF ValidKeys = {} THEN Zero
                   ELSE Float(Cardinality(FinalizedValidKeys), Cardinality(ValidKeys))]_vars

\* stats has just reported a rate of 1/2: two valid keys, one of them finalized
C16_Witness ==
    /\ ret.op = "stats"
    /\ ret.result.valid_segments = 2
    /\ ret.result.finalized_segments = 1
    /\ ret.result.finalization_rate = Half
    /\ Cardinality(ValidKeys) = 2

(* C17 *)

\* the keys of the table that a list filter selects
Selected(valid_only, finalized_only) ==
    {k \in DOMAIN buffers :
        /\ valid_only => now < buffers[k].expires_at
        /\ finalized_only => Len(buffers[k].samples) >= 10}

\* C17: a list request with the filter {valid_only, finalized_only} is answered
\* with one snapshot for exactly the keys in the table at call time that satisfy
\* the filter: expired keys are left out when valid_only is set, keys that are not
\* finalized are left out when finalized_only is set, and no other key is left out.
C17_ListReturnsFilteredKeys ==
    [][(ret'.op = "list" /\ ret' # ret) =>
          /\ ret'.response.status = "ok"
          /\ {seg.segment_id : seg \in ret'.response.segments}
                 = Selected(ret'.valid_only, ret'.finalized_only)
          /\ Cardinality(ret'.response.segments)
                 = Cardinality(Selected(ret'.valid_only, ret'.finalized_only))]_vars

\* a list request selected a key whose aggregate is not a number and was answered
\* with an error
C17_Witness ==
    /\ ret.op = "list"
    /\ ret.response.status = "error"
    /\ \E k \in Selected(ret.valid_only, ret.finalized_only) :
           IsNaN(buffers[k].aggregated_score)

(* C18 *)

\* the mirror holds an entry for k that has not expired
MirrorHit(k) == k \in DOMAIN cache /\ ~(now > cache[k].expires_at)

\* a step of the handler that answers a query of k: no task runs, no time passes
GetStep(k) ==
    /\ ret'.op = "get" /\ ret'.key = k
    /\ tasks' = tasks /\ now' = now
    /\ <<ret', cache'>> # <<ret, cache>>

\* C18: the query path consults the mirror first and returns the mirror's entry on
\* a hit; only on a mirror miss or mirror expiry does it consult the store and
\* return the store's snapshot; it reports NotFound only when the key is absent
\* from (or expired in) the mirror and absent from the store.
C18_QueryPath ==
    [][\A k \in Keys : GetStep(k) =>
          IF MirrorHit(k)
          THEN /\ ret'.response.status = "ok"
               /\ ret'.response.source = "cache"
               /\ ret'.response.body = cache[k]
          ELSE IF k \in DOMAIN buffers
          THEN /\ ret'.response.status = "ok"
               /\ ret'.response.source = "store"
               /\ ret'.response.body.segment_id = k
               /\ ret'.response.body.comfort_score = buffers[k].aggregated_score
               /\ ret'.response.body.sample_count = Len(buffers[k].samples)
               /\ ret'.response.body.last_updated = buffers[k].last_updated
               /\ ret'.response.body.expires_at = buffers[k].expires_at
          ELSE ret'.response.status = "not_found"]_vars

\* a query hit the mirror's entry of a window of nominal samples and was answered
\* with an error
C18_Witness ==
    /\ ret.op = "get"
    /\ ret.response.status = "error"
    /\ ret.response.source = "cache"
    /\ MirrorHit(ret.key)
    /\ cache[ret.key].comfort_score = One
    /\ ret.key \in DOMAIN buffers
    /\ buffers[ret.key].aggregated_score = One

(* C19 *)

\* an ingest of k has just been accepted
AcceptedIngest(k) ==
    /\ log'[k] # log[k]
    /\ ret'.op = "ingest" /\ ret'.key = k /\ ~ret'.raised

\* the step applies the scheduled update t to the mirror
Applies(t) == BagIn(t, tasks) /\ tasks' = tasks (-) SetToBag({t})

\* C19: every accepted ingest schedules one mirror update carrying the post-insert
\* snapshot, and when that update is applied the mirror entry for the key holds
\* the aggregate, the sample_count and the window's average confidence that the
\* store held immediately after that ingest.
C19_MirrorUpdateCarriesSnapshot ==
    [][/\ \A k \in Keys : AcceptedIngest(k) =>
             \E t \in BagToSet(tasks') :
                 /\ tasks' = tasks (+) SetToBag({t})
                 /\ t.call.segment_id = k
                 /\ t.call.comfort_score = buffers'[k].aggregated_score
                 /\ t.call.sample_count = Len(buffers'[k].samples)
                 /\ t.window_confidence = AverageConfidence(buffers'[k])
       /\ \A t \in BagToSet(tasks) : Applies(t) =>
             /\ t.call.segment_id \in DOMAIN cache'
             /\ cache'[t.call.segment_id].comfort_score = t.call.comfort_score
             /\ cache'[t.call.segment_id].sample_count = t.call.sample_count
             /\ cache'[t.call.segment_id].confidence = t.window_confidence]_vars

\* the update of an ingest of nominal samples has been applied: the mirror entry
\* has the window's aggregate and sample_count but confidence 0, while the window's
\* average confidence is 1
C19_Witness ==
    /\ tasks = EmptyBag
    /\ \E k \in DOMAIN cache \cap DOMAIN buffers :
           /\ cache[k].comfort_score = buffers[k].aggregated_score
           /\ cache[k].sample_count = Len(buffers[k].samples)
           /\ cache[k].sample_count = 2
           /\ AverageConfidence(buffers[k]) = One
           /\ cache[k].confidence = Zero

(* C20 *)

\* C20: a mirror put for a key overwrites any existing entry of the key
\* unconditionally (the put applied last wins, whatever the order of the ingests
\* that produced the puts), sets cached_at to the current time and expires_at to
\* cached_at + TTL_mirror, and leaves the entry of every other key unchanged.
C20_MirrorPut ==
    [][\A t \in BagToSet(tasks) : Applies(t) =>
          /\ DOMAIN cache' = DOMAIN cache \cup {t.call.segment_id}
          /\ cache'[t.call.segment_id].comfort_score = t.call.comfort_score
          /\ cache'[t.call.segment_id].sample_count = t.call.sample_count
          /\ cache'[t.call.segment_id].cached_at = now
          /\ cache'[t.call.segment_id].expires_at = cache'[t.call.segment_id].cached_at + 1
          /\ \A x \in DOMAIN cache \ {t.call.segment_id} : cache'[x] = cache[x]]_vars

\* both puts of the primary key's two ingests have been applied at time 1, the put
\* of the first ingest last: the entry holds the older window, and the other
\* key's entry, put at time 0, is as it was
C20_Witness ==
    /\ tasks = EmptyBag
    /\ created[PrimaryKey] = 1
    /\ PrimaryKey \in DOMAIN buffers
    /\ Len(buffers[PrimaryKey].samples) = 2
    /\ DOMAIN cache = Keys
    /\ cache[PrimaryKey].sample_count = 1
    /\ cache[PrimaryKey].cached_at = 1
    /\ cache[PrimaryKey].expires_at = 2
    /\ \A x \in Keys \ {PrimaryKey} : cache[x].cached_at = 0 /\ cache[x].expires_at = 1

-----------------------------------------------------------------------------
(* C21 *)

\* a call of the mirror's get for k has just returned
MirrorGetStep(k) ==
    /\ ret'.op = "mirror_get" /\ ret'.key = k
    /\ now' = now
    /\ <<ret', cache'>> # <<ret, cache>>

\* C21: the mirror's get(key) returns the stored entry when it is present and
\* now <= expires_at; when the entry is present but now > expires_at it deletes
\* that entry and returns NotFound; when the key is absent it returns NotFound; in
\* no case does it change the entry of another key.
C21_MirrorGet ==
    [][\A k \in Keys : MirrorGetStep(k) =>
          /\ (k \in DOMAIN cache /\ now <= cache[k].expires_at) =>
                 (ret'.result = <<cache[k]>> /\ cache' = cache)
          /\ (k \in DOMAIN cache /\ now > cache[k].expires_at) =>
                 (ret'.result = <<>> /\ DOMAIN cache' = DOMAIN cache \ {k})
          /\ k \notin DOMAIN cache => (ret'.result = <<>> /\ cache' = cache)
          /\ \A x \in DOMAIN cache \ {k} : x \in DOMAIN cache' /\ cache'[x] = cache[x]]_vars

\* at time 2 a get has answered NotFound for a key that has no entry (any more),
\* while the other key's entry, expired as well, is still in the mirror
C21_Witness ==
    /\ ret.op = "mirror_get"
    /\ ret.result = <<>>
    /\ ret.key \notin DOMAIN cache
    /\ now = 2
    /\ \E x \in DOMAIN cache : x # ret.key /\ now > cache[x].expires_at

-----------------------------------------------------------------------------
(* C22 *)

\* C22: after the on-demand sweep (the administrative cleanup) completes, no
\* expired entry remains in either table: every expired window is gone from the
\* store and every expired entry is gone from the mirror.
C22_SweepEmptiesBothTables ==
    [][SweepStep =>
          /\ \A k \in DOMAIN buffers' : now' < buffers'[k].expires_at
          /\ \A k \in DOMAIN cache' : ~(now' > cache'[k].expires_at)]_vars

\* the cleanup handler was the last to run, at time 2 (a window ingested at time 2
\* is in the store), it removed a window, and the mirror still holds an expired
\* entry
C22_Witness ==
    /\ ret.op = "cleanup"
    /\ ret.removed = 1
    /\ now = 2
    /\ \E x \in DOMAIN buffers : buffers[x].last_updated = 2
    /\ \E k \in DOMAIN cache : k \notin DOMAIN buffers /\ now > cache[k].expires_at

-----------------------------------------------------------------------------
(* C23 *)

\* what the mirror's entry of k holds: (aggregate, sample_count)
Mirrored(k) == <<cache[k].comfort_score, cache[k].sample_count>>

\* C23: mirror updates are applied in arrival order, not ingest order: a state is
\* reachable in which, with no update pending, the mirror entry of a key holds the
\* snapshot of an earlier ingest while the store holds a newer one (the witness);
\* yet in every reachable state the (aggregate, sample_count) of a mirror entry is
\* the post-insert snapshot of some past ingest of that same key.
C23_MirrorHoldsSomePastSnapshot ==
    \A k \in DOMAIN cache : Mirrored(k) \in past[k]

\* no update is pending, the window of a key created once holds two samples, both
\* snapshots were taken, and the mirror holds the one of the first ingest
C23_Witness ==
    /\ tasks = EmptyBag
    /\ \E k \in DOMAIN cache \cap DOMAIN buffers :
           /\ created[k] = 1
           /\ Len(log[k]) = 2
           /\ Held(buffers[k]) \in past[k]
           /\ Mirrored(k) \in past[k]
           /\ Mirrored(k)[2] = 1
           /\ Held(buffers[k])[2] = 2

-----------------------------------------------------------------------------
(* C24 *)

\* an ingest of k has just returned to its caller
IngestReturns(k) == Len(log'[k]) > Len(log[k])

\* the step only removes entries from the mirror
OnlyRemoves ==
    /\ DOMAIN cache' \subseteq DOMAIN cache
    /\ \A x \in DOMAIN cache' : cache'[x] = cache[x]

\* C24: the mirror is written only by the asynchronous update task: the ingest
\* operation itself returns without having changed the mirror, and a mirror entry
\* changes only when a scheduled task runs (or when a mirror get, sweep or clear
\* removes entries).
C24_OnlyTheTaskWritesTheMirror ==
    [][/\ \A k \in Keys : IngestReturns(k) => cache' = cache
       /\ cache' # cache => ((\E t \in BagToSet(tasks) : Applies(t)) \/ OnlyRemoves)]_vars

\* the second ingest of a key has just returned: its update is pending, the store
\* holds two samples and the mirror still holds the snapshot of the first ingest
C24_Witness ==
    /\ ret.op = "ingest"
    /\ ~ret.raised
    /\ ret.result.sample_count = 2
    /\ ret.key \in DOMAIN cache
    /\ cache[ret.key].sample_count = 1
    /\ Len(buffers[ret.key].samples) = 2
    /\ \E t \in BagToSet(tasks) : t.call.segment_id = ret.key /\ t.call.sample_count = 2

-----------------------------------------------------------------------------
(* C25 *)

\* the update of the ingest that brought k's window to n samples is in the queue
Pending(k, n) ==
    \E t \in BagToSet(tasks) : t.call.segment_id = k /\ t.call.sample_count = n

\* C25: under fair scheduling of the task queue (no update is ever dropped), every
\* accepted ingest is eventually followed by the application of its mirror update,
\* and the ingest caller's completion never waits for that application: when the
\* ingest returns, its update is in the queue and the mirror is as it was; an
\* update leaves the queue only by being applied.
C25_UpdateEventuallyApplied ==
    /\ \A k \in Keys : \A n \in 1..MirrorIngests : Pending(k, n) ~> ~Pending(k, n)
    /\ [][/\ \A k \in Keys : AcceptedIngest(k) =>
                 /\ \E t \in BagToSet(tasks') :
                        /\ t.call.segment_id = k
                        /\ t.call.sample_count = Len(buffers'[k].samples)
                 /\ cache' = cache
          /\ (tasks' # tasks /\ BagCardinality(tasks') <= BagCardinality(tasks)) =>
                 \E u \in BagToSet(tasks) :
                     /\ Applies(u)
                     /\ Mirrored(u.call.segment_id)' = <<u.call.comfort_score,
                                                        u.call.sample_count>>]_vars

\* every update has been applied, the one of the primary key's second ingest last:
\* both keys have a mirror entry and each holds what its window holds
C25_Witness ==
    /\ tasks = EmptyBag
    /\ Len(log[PrimaryKey]) = MirrorIngests
    /\ \A k \in Keys :
           /\ k \in DOMAIN cache /\ k \in DOMAIN buffers
           /\ Mirrored(k) = Held(buffers[k])

-----------------------------------------------------------------------------
(* C26 *)

\* an ingest request on k has been received and its handler has not returned
Outstanding(k) ==
    \/ \E q \in BagToSet(inflight) : q.op = "ingest" /\ q.key = k
    \/ \E r \in running : r.req.key = k

\* the window of x in a table, if any
Window(bufs, x) == IF x \in DOMAIN bufs THEN <<bufs[x]>> ELSE <<>>

\* the windows of the keys other than k are as they were
OthersUntouched(k) == \A x \in Keys \ {k} : Window(buffers', x) = Window(buffers, x)

-----------------------------------------------------------------------------
(* C27 *)

\* a finite non-negative float in thousandths, rounded to the nearest
Thousandths(a) == (2000 * a.n + a.d) \div (2 * a.d)

\* the window of k holds the three predictions of the example, in their order, and
\* nothing else
HoldsExample(k) ==
    /\ k \in DOMAIN buffers
    /\ Len(buffers[k].samples) = Len(ExampleInputs)
    /\ \A i \in 1..Len(ExampleInputs) :
           /\ buffers[k].samples[i].comfort_score = ExampleInputs[i][1]
           /\ buffers[k].samples[i].confidence = ExampleInputs[i][2]

-----------------------------------------------------------------------------
(* C28 *)

\* the windows of the table obey the capacity and the lifetime a service
\* constructed with cfg has been given
StoreGovernedBy(cfg) ==
    \A k \in DOMAIN buffers :
        /\ Len(buffers[k].samples) <= ServiceFields(cfg).BUFFER_LIMIT
        /\ IsFinalized(buffers[k])
               <=> Len(buffers[k].samples) = ServiceFields(cfg).BUFFER_LIMIT
        /\ buffers[k].samples # <<>>
               => buffers[k].expires_at = buffers[k].last_updated + ServiceFields(cfg).TTL

\* every entry of the mirror expires its own lifetime after it was cached
MirrorGovernedByItsOwn ==
    \A k \in DOMAIN cache : cache[k].expires_at = cache[k].cached_at + CacheTTL

\* C28: the configured constants govern behaviour: for a store built with
\* capacity N and lifetime T every window holds at most N samples, is finalized
\* exactly when it holds N and expires T after its last ingest; every entry of
\* the mirror expires the mirror's own lifetime after cached_at, whatever T is.
C28_ConfiguredConstantsGovern ==
    /\ \A cfg \in ServiceConfigurations : StoreGovernedBy(cfg)
    /\ MirrorGovernedByItsOwn

\* a window holds two samples and its snapshot is in the mirror: a store built
\* with capacity 2 would have finalized it
C28_Witness ==
    /\ PrimaryKey \in DOMAIN buffers
    /\ Len(buffers[PrimaryKey].samples) = 2
    /\ ~IsFinalized(buffers[PrimaryKey])
    /\ PrimaryKey \in DOMAIN cache
    /\ cache[PrimaryKey].sample_count = 2

-----------------------------------------------------------------------------
(* C29 *)

RECURSIVE SamplesHeldIn(_)
\* the number of samples the windows of a set of keys hold together
SamplesHeldIn(S) ==
    IF S = {} THEN 0
    ELSE LET x == CHOOSE y \in S : TRUE
         IN  Len(buffers[x].samples) + SamplesHeldIn(S \ {x})

\* what a stats record must say in the current state: the two counts and the two
\* averages over the valid keys, the total over every key of the table
StatsOverValid(stats) ==
    /\ stats.total_segments = Cardinality(DOMAIN buffers)
    /\ stats.valid_segments = Cardinality(ValidKeys)
    /\ stats.finalized_segments = Cardinality(FinalizedValidKeys)
    /\ stats.finalized_segments <= stats.valid_segments
    /\ stats.valid_segments <= stats.total_segments
    /\ IF ValidKeys = {}
       THEN stats.avg_samples_per_segment = Zero /\ stats.avg_comfort_score = Half
       ELSE /\ FMul(stats.avg_samples_per_segment, Float(Cardinality(ValidKeys), 1))
                   = Float(SamplesHeldIn(ValidKeys), 1)
            /\ stats.avg_comfort_score =
                   FDiv(FloatSumOver([k \in ValidKeys |-> buffers[k].aggregated_score],
                                     ValidKeys),
                        Float(Cardinality(ValidKeys), 1))

\* C29: stats computes valid_keys, finalized_keys and the two averages over the
\* keys that have not expired, and total_keys over every key of the table,
\* expired and unswept ones included, so that finalized_keys <= valid_keys <=
\* total_keys; this holds for what stats would return in every state and for
\* what each call of stats did return.
C29_StatsOverValidKeys ==
    /\ [](StatsOverValid(GetStats(buffers, now)))
    /\ [][(ret'.op = "stats" /\ ret' # ret) =>
             /\ StatsOverValid(ret'.result)
             /\ UNCHANGED <<buffers, now>>]_vars

\* stats has just reported on a table of two keys of which one has expired and
\* has not been swept: the expired one holds more samples than the valid one
C29_Witness ==
    /\ ret.op = "stats"
    /\ ret.result.total_segments = 2
    /\ ret.result.valid_segments = 1
    /\ \E k \in DOMAIN buffers \ ValidKeys, v \in ValidKeys :
           /\ Len(buffers[k].samples) > Len(buffers[v].samples)
           /\ ret.result.avg_samples_per_segment = Float(Len(buffers[v].samples), 1)

-----------------------------------------------------------------------------
(* C30 *)

\* the entries of the mirror whose expiry lies strictly in the past
MirrorExpired == {k \in DOMAIN cache : now > cache[k].expires_at}

\* the step is a call of the mirror's operation op
MirrorCall(op) == ret'.op = op /\ now' = now

\* C30: the mirror's sweep removes exactly the entries with now > expires_at,
\* leaves every other entry as it was, returns the number it removed and leaves
\* the store alone; clear removes every entry of the mirror and leaves the store
\* alone; size is the number of entries held, expired ones that have not been
\* removed included, and changes nothing.
C30_MirrorSweepClearSize ==
    [][/\ MirrorCall("mirror_sweep") =>
              /\ DOMAIN cache' = (DOMAIN cache) \ MirrorExpired
              /\ \A k \in DOMAIN cache' : cache'[k] = cache[k]
              /\ ret'.removed = Cardinality(MirrorExpired)
              /\ buffers' = buffers
       /\ MirrorCall("mirror_clear") =>
              /\ cache' = <<>>
              /\ buffers' = buffers
       /\ MirrorCall("mirror_size") =>
              /\ ret'.result = Cardinality(DOMAIN cache)
              /\ cache' = cache
              /\ buffers' = buffers]_vars

\* a sweep has just removed one entry and kept another that expires at this very
\* instant, beside a store that holds a window
C30_Witness ==
    /\ ret.op = "mirror_sweep"
    /\ ret.removed = 1
    /\ \E k \in DOMAIN cache : cache[k].expires_at = now
    /\ buffers # <<>>

-----------------------------------------------------------------------------
(* C31 *)

\* the finite float a exceeds n tenths
ExceedsTenths(a, n) == a.n * 10 > n * a.d

\* C31: the colour mapping gives green for a score above 0.7, yellow for a score
\* above 0.4 and at most 0.7, red for a score of at most 0.4; exactly 0.7 is
\* yellow, exactly 0.4 is red, and every score of [0, 1] has exactly one colour.
C31_ColorMapping ==
    ret.op = "color" =>
        /\ ret.color \in {"green", "yellow", "red"}
        /\ ret.color = "green" <=> ExceedsTenths(ret.score, 7)
        /\ ret.color = "yellow" <=>
               ExceedsTenths(ret.score, 4) /\ ~ExceedsTenths(ret.score, 7)
        /\ ret.color = "red" <=> ~ExceedsTenths(ret.score, 4)
        /\ ret.score = Float(7, 10) => ret.color = "yellow"
        /\ ret.score = Float(4, 10) => ret.color = "red"

\* the mapping has just been applied to exactly 0.7
C31_Witness ==
    /\ ret.op = "color"
    /\ ret.score = Float(7, 10)
    /\ ret.color = "yellow"

-----------------------------------------------------------------------------
(* C32 *)

\* the comfort score a route evaluation must use for a key: the window's
\* aggregate, or the neutral 0.5 when the store holds no window of the key
RouteScore(k) == IF k \in DOMAIN buffers THEN buffers[k].aggregated_score ELSE Half

\* the scores, and the comfort costs, of the segments of a route
RouteScores(segments) == [i \in 1..Len(segments) |-> RouteScore(segments[i])]

RouteComfortCosts(segments) ==
    [i \in 1..Len(segments) |->
        IF segments[i] \in DOMAIN buffers
        THEN FSub(One, RouteScore(segments[i])) ELSE Half]

\* the response r is the evaluation of the route in the current state
RouteEvaluated(r, segments, time_weight, comfort_weight) ==
    /\ Len(r.segments) = Len(segments)
    /\ \A i \in 1..Len(segments) :
           /\ r.segments[i].segment_id = segments[i]
           /\ r.segments[i].known = (segments[i] \in DOMAIN buffers)
           /\ r.segments[i].time_cost = One
           /\ r.segments[i].comfort_score = RouteScores(segments)[i]
           /\ r.segments[i].comfort_cost = RouteComfortCosts(segments)[i]
    /\ r.total_cost = FAdd(FMul(time_weight, r.time_cost),
                           FMul(comfort_weight, r.comfort_cost))
    /\ IF segments = <<>>
       THEN /\ r.time_cost = Zero
            /\ r.comfort_cost = Zero
            /\ r.total_cost = Zero
            /\ r.average_comfort = Half
       ELSE /\ r.time_cost = One
            /\ FMul(r.comfort_cost, Float(Len(segments), 1))
                   = NpSum(RouteComfortCosts(segments))
            /\ FMul(r.average_comfort, Float(Len(segments), 1))
                   = NpSum(RouteScores(segments))

\* C32: route evaluation returns total_cost = time_weight * mean(time_cost) +
\* comfort_weight * mean(1 - comfort_score) over the segments of the route, with
\* time_cost 1.0 for each; a segment the store does not hold counts with score 0.5
\* and cost 0.5 and is flagged known = false; the empty route gives costs 0 and
\* average comfort 0.5. The evaluation changes nothing.
C32_RouteEvaluation ==
    [][(ret'.op = "evaluate" /\ ret' # ret) =>
           /\ RouteEvaluated(ret'.response, ret'.segments,
                             ret'.time_weight, ret'.comfort_weight)
           /\ UNCHANGED <<buffers, cache, now>>]_vars

\* a route of a key the store holds with aggregate 1 and a key it does not hold
\* has just been evaluated with weights 1/4 and 3/4: 1/4 + 3/4 * (0 + 1/2)/2
C32_Witness ==
    /\ ret.op = "evaluate"
    /\ Len(ret.segments) = 2
    /\ ret.response.segments[1].known
    /\ ret.response.segments[1].comfort_score = One
    /\ ~ret.response.segments[2].known
    /\ ret.time_weight = Float(1, 4)
    /\ ret.response.total_cost = Float(7, 16)
    /\ ret.response.average_comfort = Float(3, 4)

-----------------------------------------------------------------------------
(* C33 *)

\* a sweep has removed k from the store and no ingest has brought it back
SweptAway(k) == swept[k] # "never" /\ k \notin DOMAIN buffers

\* C33: once a sweep has removed a key from the store, a query of the key is
\* answered NotFound until the key is ingested again; the gateway never answers
\* from the mirror's entry of a key the store no longer holds.
C33_SweptKeyIsNotFound ==
    [][\A k \in Keys :
          (GetStep(k) /\ SweptAway(k)) =>
              /\ ret'.response.status = "not_found"
              /\ ret'.response.source # "cache"]_vars

\* a query of a key that a sweep has removed from the store has just been answered
\* from the mirror's entry of the key, which has not expired
C33_Witness ==
    /\ ret.op = "get"
    /\ SweptAway(ret.key)
    /\ ret.response.source = "cache"
    /\ ret.response.status # "not_found"
    /\ MirrorHit(ret.key)

-----------------------------------------------------------------------------
(* C34 *)

\* an ingest on k returns without raising
IngestAccepted(k) ==
    /\ Len(log'[k]) = Len(log[k]) + 1
    /\ ret'.op = "ingest" /\ ret'.key = k /\ ~ret'.raised

\* the store holds a window of k that has expired and has not been swept
ExpiredUnswept(k) == k \in DOMAIN buffers /\ ~(now < buffers[k].expires_at)

\* C34: an ingest on a key that has expired and has not been swept starts no new
\* window: it appends to the window the key has, which keeps its earlier samples
\* (the oldest leaves when there are 10) and stays finalized if it was, and the
\* key is valid again, with expires_at = now + TTL.
C34_IngestRevivesExpiredWindow ==
    [][\A k \in Keys :
          (ExpiredUnswept(k) /\ IngestAccepted(k)) =>
              /\ created'[k] = created[k]
              /\ buffers'[k].obj = buffers[k].obj
              /\ buffers'[k].samples =
                     LastN(Append(buffers[k].samples, log'[k][Len(log'[k])]), 10)
              /\ Len(buffers[k].samples) >= 10 => Len(buffers'[k].samples) >= 10
              /\ buffers'[k].expires_at = now' + TTL
              /\ now' < buffers'[k].expires_at]_vars

\* the eleventh ingest on the primary key has just returned at time 1; the window
\* is the one created at time 0, it had its ten samples and had expired, since
\* these clients ingest at a later time only on an expired window
C34_Witness ==
    /\ ret.op = "ingest" /\ ret.key = PrimaryKey /\ ~ret.raised
    /\ now = 1
    /\ Len(log[PrimaryKey]) = 11
    /\ created[PrimaryKey] = 1
    /\ swept[PrimaryKey] = "never"
    /\ buffers[PrimaryKey].last_updated = 1
    /\ buffers[PrimaryKey].expires_at = 2
    /\ Len(buffers[PrimaryKey].samples) = 10
    /\ ret.result.is_finalized

-----------------------------------------------------------------------------
(* C35 *)

\* the window of k, or the mirror's entry of k, expires at this very instant
WindowAtExpiry(k) == k \in DOMAIN buffers /\ buffers[k].expires_at = now

EntryAtExpiry(k) == k \in DOMAIN cache /\ cache[k].expires_at = now

\* C35: the two tables treat the instant now = expires_at differently: a window
\* of the store at exactly expires_at is reported valid = false and is removed
\* by the store's sweep; an entry of the mirror at exactly expires_at is still
\* returned by get, still listed by get_all and not removed by the mirror's sweep.
C35_ExpiryInstant ==
    [][\A k \in Keys :
          /\ (WindowAtExpiry(k) /\ MirrorCall("query") /\ ret'.key = k) =>
                 /\ ret'.result # <<>>
                 /\ ~ret'.result[1].is_valid
          /\ (WindowAtExpiry(k) /\ MirrorCall("cleanup")) => k \notin DOMAIN buffers'
          /\ (EntryAtExpiry(k) /\ MirrorCall("mirror_get") /\ ret'.key = k) =>
                 /\ ret'.result = <<cache[k]>>
                 /\ cache' = cache
          /\ (EntryAtExpiry(k) /\ MirrorCall("mirror_get_all")) =>
                 /\ k \in DOMAIN ret'.result
                 /\ ret'.result[k] = cache[k]
          /\ (EntryAtExpiry(k) /\ MirrorCall("mirror_sweep")) =>
                 /\ k \in DOMAIN cache'
                 /\ cache'[k] = cache[k]]_vars

\* at time 1 the store's sweep has removed the window of a key ingested at time
\* 0, and get_all has just listed the mirror's entry of that key, cached at
\* time 0 and expiring at this very instant
C35_Witness ==
    /\ now = 1
    /\ ret.op = "mirror_get_all"
    /\ \E k \in DOMAIN ret.result :
           /\ EntryAtExpiry(k)
           /\ swept[k] # "never"
           /\ k \notin DOMAIN buffers

-----------------------------------------------------------------------------
(* C36 *)

\* the triple (aggregate, sample_count, finalized) of a query's snapshot
TripleOf(snapshot) ==
    [aggregated_score |-> snapshot.comfort_score,
     sample_count |-> snapshot.sample_count,
     is_finalized |-> snapshot.is_finalized]

\* the smaller of two numbers
Smaller(a, b) == IF a <= b THEN a ELSE b

\* C36: the triple (aggregate, sample_count, finalized) an ingest returns is the
\* triple a query of the same key returns right after it, with no operation in
\* between, and sample_count = min(n, 10), n being the number of ingests on the
\* key since its window was created.
C36_IngestReturnsWhatQueryWould ==
    [][\A k \in Keys :
          /\ IngestAccepted(k) =>
                 /\ GetSegmentScore(buffers', k, now') # <<>>
                 /\ ret'.result = TripleOf(GetSegmentScore(buffers', k, now')[1])
                 /\ ret'.result.sample_count = Smaller(Len(log'[k]), 10)
          /\ (/\ ret.op = "ingest" /\ ret.key = k /\ ~ret.raised
              /\ ret'.op = "query" /\ ret'.key = k) =>
                 /\ ret'.result # <<>>
                 /\ TripleOf(ret'.result[1]) = ret.result]_vars

\* the eleventh ingest on the primary key has just returned: its window holds ten
\* samples and a query now returns the same triple
C36_Witness ==
    /\ ret.op = "ingest" /\ ret.key = PrimaryKey /\ ~ret.raised
    /\ Len(log[PrimaryKey]) = 11
    /\ ret.result.sample_count = 10
    /\ ret.result.is_finalized
    /\ TripleOf(GetSegmentScore(buffers, PrimaryKey, now)[1]) = ret.result

-----------------------------------------------------------------------------
(* C37 *)

\* the response carries the snapshot the store holds of k
StoreSnapshotOf(response, k) ==
    /\ response.status = "ok"
    /\ response.source = "store"
    /\ response.body.segment_id = k
    /\ response.body.comfort_score = buffers[k].aggregated_score
    /\ response.body.sample_count = Len(buffers[k].samples)
    /\ response.body.last_updated = buffers[k].last_updated
    /\ response.body.expires_at = buffers[k].expires_at

\* C37: while the mirror has no live entry of a key, because it was cleared or
\* the entry has expired and no further update has been applied, a query of a
\* key the store holds returns the store's current snapshot, not NotFound, and
\* the query puts no entry into the mirror.
C37_QueryFallsBackToStore ==
    [][\A k \in Keys :
          (GetStep(k) /\ ~MirrorHit(k) /\ k \in DOMAIN buffers) =>
              /\ StoreSnapshotOf(ret'.response, k)
              /\ k \notin DOMAIN cache']_vars

\* a query of a key the store holds, with no entry in the mirror, has just been
\* answered with an error: the window's aggregate is not a number
C37_Witness ==
    /\ ret.op = "get"
    /\ ret.key \in DOMAIN buffers
    /\ ret.key \notin DOMAIN cache
    /\ IsNaN(buffers[ret.key].aggregated_score)
    /\ ret.response.status = "error"
    /\ ret.response.source = "store"

-----------------------------------------------------------------------------
(* C38 *)

\* the stats record of a table without a valid key
NeutralStats(stats) ==
    /\ stats.valid_segments = 0
    /\ stats.finalized_segments = 0
    /\ stats.avg_samples_per_segment = Zero
    /\ stats.avg_comfort_score = Half
    /\ stats.finalization_rate = Zero
    /\ stats.total_segments = Cardinality(DOMAIN buffers)

\* C38: when no key is valid, stats reports valid_keys = 0, finalized_keys = 0,
\* avg_sample_count = 0 and avg_aggregate = 0.5, the neutral default, without
\* error, however many expired keys are still in the table.
C38_StatsWithoutValidKeys ==
    /\ [](ValidKeys = {} => NeutralStats(GetStats(buffers, now)))
    /\ [][(ValidKeys = {} /\ ret'.op = "stats" /\ now' = now) =>
              NeutralStats(ret'.result)]_vars

\* stats has just reported on a table of two expired keys, one of them finalized,
\* whose aggregates are not 0.5
C38_Witness ==
    /\ ret.op = "stats"
    /\ ret.result.total_segments = 2
    /\ ret.result.valid_segments = 0
    /\ ret.result.avg_comfort_score = Half
    /\ ValidKeys = {}
    /\ \A k \in DOMAIN buffers : buffers[k].aggregated_score = One
    /\ \E k \in DOMAIN buffers : Len(buffers[k].samples) >= 10

====
